---- MODULE Spec2Model ----
(***************************************************************************)
(* nomcurl: a curl command line is parsed into typed tokens (Url, Method,  *)
(* Header, Data, Flag) and folded into a ParsedRequest.  Strings are       *)
(* sequences of one-character strings; every nom combinator is modelled by *)
(* what it consumes and by the kind of error (Error / Failure) it returns. *)
(***************************************************************************)
EXTENDS Integers, Sequences, FiniteSets, TLC

VARIABLES
    parts,     \* the pieces the input text was assembled from, with their meaning
    input,     \* the text handed to the entry point
    pc,        \* the position of the call in progress
    rest,      \* the unconsumed remainder of the input
    tokens,    \* the tokens collected so far (Vec<Curl>)
    request,   \* Option<ParsedRequest>, the result of parse_curl_command
    err,       \* "none", or the error that ended the call
    result,    \* the IResult of a single parser applied to the input
    url,       \* Option<CurlUrl>, the URL under decomposition / rendering
    rendered   \* Option<String>, the Display rendering of the URL

vars == <<parts, input, pc, rest, tokens, request, err, result, url, rendered>>

----------------------------------------------------------------------------
(* Characters and the std / nom character classes.                         *)

LowerSeq == <<"a","b","c","d","e","f","g","h","i","j","k","l","m",
              "n","o","p","q","r","s","t","u","v","w","x","y","z">>
UpperSeq == <<"A","B","C","D","E","F","G","H","I","J","K","L","M",
              "N","O","P","Q","R","S","T","U","V","W","X","Y","Z">>
Lower == {LowerSeq[i] : i \in DOMAIN LowerSeq}
Upper == {UpperSeq[i] : i \in DOMAIN UpperSeq}
Digit == {"0","1","2","3","4","5","6","7","8","9"}
Alpha == Lower \cup Upper
AlphaNum == Alpha \cup Digit

\* nom multispace0 / multispace1: space, tab, carriage return, line feed
MultiSpace == {" ", "\t", "\r", "\n"}
\* char::is_whitespace (str::trim, str::trim_start): White_Space; of the
\* characters used here that adds the form feed to the four above
WhiteSpace == MultiSpace \cup {"\f"}

\* u8::to_ascii_lowercase on one character
LowerChar(c) ==
    IF c \in Upper
    THEN LowerSeq[CHOOSE i \in DOMAIN UpperSeq : UpperSeq[i] = c]
    ELSE c

\* str::to_ascii_lowercase
ToAsciiLowercase(s) == [i \in DOMAIN s |-> LowerChar(s[i])]

\* str::eq_ignore_ascii_case
EqIgnoreAsciiCase(a, b) == ToAsciiLowercase(a) = ToAsciiLowercase(b)

Take(s, n) == SubSeq(s, 1, n)
Drop(s, n) == SubSeq(s, n + 1, Len(s))

\* str::starts_with
StartsWith(s, p) == Len(s) >= Len(p) /\ Take(s, Len(p)) = p

\* number of leading characters of s that lie in the set cs
RECURSIVE SpanLen(_, _)
SpanLen(s, cs) ==
    IF s = <<>> \/ Head(s) \notin cs THEN 0 ELSE 1 + SpanLen(Tail(s), cs)

\* number of leading characters of s that differ from every member of stop
RECURSIVE TillLen(_, _)
TillLen(s, stop) ==
    IF s = <<>> \/ Head(s) \in stop THEN 0 ELSE 1 + TillLen(Tail(s), stop)

\* str::trim_start, str::trim_end, str::trim
TrimStart(s) == Drop(s, SpanLen(s, WhiteSpace))
RECURSIVE TrimEnd(_)
TrimEnd(s) ==
    IF s = <<>> \/ s[Len(s)] \notin WhiteSpace THEN s
    ELSE TrimEnd(Take(s, Len(s) - 1))
Trim(s) == TrimEnd(TrimStart(s))

\* str::find(char): index (1-based) of the first occurrence, 0 when absent
Find(s, c) ==
    IF \A i \in DOMAIN s : s[i] # c THEN 0 ELSE TillLen(s, {c}) + 1

\* Option<T>: None is the empty sequence, Some(v) a sequence of one element
None == <<>>
Some(v) == <<v>>

----------------------------------------------------------------------------
(* nom results: Ok((rest, out)), Err(Err::Error), Err(Err::Failure).       *)

Ok(r, o) == [st |-> "Ok", rest |-> r, out |-> o]
Error == [st |-> "Error", rest |-> <<>>, out |-> <<>>]
Failure == [st |-> "Failure", rest |-> <<>>, out |-> <<>>]
IsOk(r) == r.st = "Ok"

\* nom alt over two parsers' results: an Error moves on to the second
\* parser, an Ok or a Failure of the first is returned at once
Alt(first, second) == IF first.st # "Error" THEN first ELSE second

----------------------------------------------------------------------------
(* Flag classification tables (curl/config.rs), in the source's order.     *)

METHOD_FLAG_IDENTIFIERS == << <<"-","X">>, <<"-","-","r","e","q","u","e","s","t">> >>
HEADER_FLAG_IDENTIFIERS == << <<"-","H">>, <<"-","-","h","e","a","d","e","r">> >>
DATA_FLAG_IDENTIFIERS ==
    << <<"-","-","d","a","t","a","-","u","r","l","e","n","c","o","d","e">>, <<"-","-","d","a","t","a","-","b","i","n","a","r","y">>, <<"-","-","d","a","t","a","-","r","a","w">>, <<"-","-","d","a","t","a">>,
       <<"-","d">>, <<"-","-","f","o","r","m","-","s","t","r","i","n","g">>, <<"-","-","f","o","r","m">>, <<"-","F">> >>
FLAG_VALUE_REQUIRED ==
    << <<"-","-","c","a","c","e","r","t">>, <<"-","-","c","e","r","t">>, <<"-","-","c","e","r","t","-","t","y","p","e">>, <<"-","-","c","o","n","n","e","c","t","-","t","i","m","e","o","u","t">>,
       <<"-","-","c","o","o","k","i","e">>, <<"-","-","c","o","o","k","i","e","-","j","a","r">>, <<"-","-","k","e","y">>, <<"-","-","k","e","y","-","t","y","p","e">>,
       <<"-","-","l","i","m","i","t","-","r","a","t","e">>, <<"-","-","m","a","x","-","t","i","m","e">>, <<"-","-","o","u","t","p","u","t">>, <<"-","-","p","r","o","x","y">>,
       <<"-","-","r","e","t","r","y">>, <<"-","-","r","e","t","r","y","-","d","e","l","a","y">>, <<"-","-","r","e","t","r","y","-","m","a","x","-","t","i","m","e">>, <<"-","-","t","r","a","c","e">>,
       <<"-","-","t","r","a","c","e","-","a","s","c","i","i">>, <<"-","-","u","s","e","r">> >>
SHORT_FLAGS_VALUE_REQUIRED == << <<"-","o">>, <<"-","u">>, <<"-","x">> >>

\* <[&str]>::contains
Contains(table, s) == \E i \in DOMAIN table : table[i] = s

----------------------------------------------------------------------------
(* Quoting and whitespace primitives (curl/parser/common.rs).              *)

CURL_CMD == <<"c","u","r","l">>

\* a variant of is_curl that looks for the literal anywhere in the text
is_curl_contains(s) ==
    \E i \in 0..Len(s) : StartsWith(Drop(ToAsciiLowercase(s), i), CURL_CMD)

is_curl(s) == StartsWith(ToAsciiLowercase(TrimStart(s)), CURL_CMD)

remove_curl_cmd_header(s) ==
    LET Strip(trimmed) ==
            IF Len(trimmed) >= Len(CURL_CMD)
               /\ EqIgnoreAsciiCase(Take(trimmed, Len(CURL_CMD)), CURL_CMD)
            THEN Drop(trimmed, Len(CURL_CMD))
            ELSE trimmed
    IN Strip(TrimStart(s))

\* nom multispace0: never fails
multispace0(s) == Drop(s, SpanLen(s, MultiSpace))

\* recognize((multispace0, char('\\'), multispace0))
slash_line_ending(s) ==
    LET Recognized(b) == Ok(b, Take(s, Len(s) - Len(b)))
        AfterSpace(a) ==
            IF a # <<>> /\ Head(a) = "\\"
            THEN Recognized(multispace0(Tail(a)))
            ELSE Error
    IN AfterSpace(multispace0(s))

\* a variant of the quoted parser that opens at either quote character
DelimitedByEitherOpening(q, s) ==
    LET Body(body, n) ==
            IF n = Len(body) THEN Error
            ELSE Ok(multispace0(Drop(body, n + 1)), Take(body, n))
        Open(a) ==
            IF a = <<>> \/ Head(a) \notin {"'", "\""} THEN Error
            ELSE Body(Tail(a), TillLen(Tail(a), {q}))
    IN Open(multispace0(s))

\* a variant of the quoted parser that takes the text up to the end of the
\* input when the closing quote is missing
DelimitedByOpenEnded(q, s) ==
    LET Body(body, n) ==
            IF n = Len(body) THEN Ok(<<>>, body)
            ELSE Ok(multispace0(Drop(body, n + 1)), Take(body, n))
        Open(a) ==
            IF a = <<>> \/ Head(a) # q THEN Error
            ELSE Body(Tail(a), TillLen(Tail(a), {q}))
    IN Open(multispace0(s))

\* delimited((multispace0, char(q)), take_until(q), (char(q), multispace0))
DelimitedBy(q, s) ==
    LET Body(body, n) ==
            IF n = Len(body) THEN Error
            ELSE Ok(multispace0(Drop(body, n + 1)), Take(body, n))
        Open(a) ==
            IF a = <<>> \/ Head(a) # q THEN Error
            ELSE Body(Tail(a), TillLen(Tail(a), {q}))
    IN Open(multispace0(s))

double_quoted_data_parse(s) == DelimitedBy("\"", s)

single_quoted_data_parse(s) == DelimitedBy("'", s)

\* preceded(multispace0, take_till1(|c| c.is_whitespace() || c == '\\'))
unquoted_data_parse(s) ==
    LET Run(a, n) == IF n = 0 THEN Error ELSE Ok(Drop(a, n), Take(a, n))
        Value(a) == Run(a, TillLen(a, WhiteSpace \cup {"\\"}))
    IN Value(multispace0(s))

\* a variant of quoted_data_parse whose last arm returns a recoverable Error
quoted_data_parse_recoverable(s) ==
    LET Match(double_res, single_res) ==
            CASE IsOk(double_res) /\ IsOk(single_res) ->
                   IF Len(double_res.out) >= Len(single_res.out)
                   THEN double_res ELSE single_res
              [] ~IsOk(double_res) /\ IsOk(single_res) -> single_res
              [] IsOk(double_res) /\ ~IsOk(single_res) -> double_res
              [] OTHER -> Error
    IN Match(double_quoted_data_parse(s), single_quoted_data_parse(s))

quoted_data_parse(s) ==
    LET Match(double_res, single_res) ==
            CASE IsOk(double_res) /\ IsOk(single_res) ->
                   IF Len(double_res.out) >= Len(single_res.out)
                   THEN double_res ELSE single_res
              [] ~IsOk(double_res) /\ IsOk(single_res) -> single_res
              [] IsOk(double_res) /\ ~IsOk(single_res) -> double_res
              [] OTHER -> Failure
    IN Match(double_quoted_data_parse(s), single_quoted_data_parse(s))

\* alt((double_quoted_data_parse, single_quoted_data_parse, unquoted_data_parse))
argument_value_parse(s) ==
    Alt(double_quoted_data_parse(s),
        Alt(single_quoted_data_parse(s), unquoted_data_parse(s)))

----------------------------------------------------------------------------
(* CurlUrl and its rendering (curl/url.rs).                                *)

\* impl From<&str> for Protocol: the match is on the lower-cased text, and
\* the catch-all arm binds that lower-cased text
ProtocolFrom(value) ==
    LET lowered == ToAsciiLowercase(value) IN
    CASE lowered = <<"h","t","t","p">> -> [tag |-> "Http", value |-> <<>>]
      [] lowered = <<"h","t","t","p","s">> -> [tag |-> "Https", value |-> <<>>]
      [] lowered = <<"f","t","p">> -> [tag |-> "Ftp", value |-> <<>>]
      [] lowered = <<"s","m","b">> -> [tag |-> "Smb", value |-> <<>>]
      [] OTHER -> [tag |-> "Other", value |-> lowered]

\* Protocol::as_str
ProtocolAsStr(p) ==
    CASE p.tag = "Http" -> <<"h","t","t","p">>
      [] p.tag = "Https" -> <<"h","t","t","p","s">>
      [] p.tag = "Ftp" -> <<"f","t","p">>
      [] p.tag = "Smb" -> <<"s","m","b">>
      [] OTHER -> p.value

\* UserInfo::new
\* a variant of UserInfo::new that accepts an empty username
UserInfoNewAnyName(username, password) ==
    Some([username |-> username, password |-> password])

UserInfoNew(username, password) ==
    IF username = <<>> THEN None
    ELSE Some([username |-> username, password |-> password])

\* UserInfo::from_raw: splitn(2, ':')
UserInfoFromRaw(raw) ==
    LET SplitAt(i) ==
            IF i = 0 THEN UserInfoNew(raw, None)
            ELSE UserInfoNew(Take(raw, i - 1), Some(Drop(raw, i)))
    IN IF raw = <<>> THEN None ELSE SplitAt(Find(raw, ":"))

\* CurlUrl::new
CurlUrlNew(protocol, domain) ==
    [protocol |-> ProtocolFrom(protocol), userinfo |-> None, domain |-> domain,
     uri |-> None, queries |-> None, fragment |-> None]

set_userinfo(u, userinfo) == [u EXCEPT !.userinfo = Some(userinfo)]

\* a variant of set_uri that stores the text as given
set_uri_as_given(u, uri) == [u EXCEPT !.uri = Some(uri)]

set_uri(u, uri) ==
    [u EXCEPT !.uri = IF uri = <<>> THEN None ELSE Some(uri)]

set_queries(u, queries) ==
    [u EXCEPT !.queries = IF queries = <<>> THEN None ELSE Some(queries)]

set_fragment(u, fragment) ==
    [u EXCEPT !.fragment = IF fragment = <<>> THEN None ELSE Some(fragment)]

\* serialized.join("&") over format!("{}={}", key, value)
RECURSIVE JoinQueries(_)
JoinQueries(qs) ==
    IF qs = <<>> THEN <<>>
    ELSE LET one == Head(qs)[1] \o <<"=">> \o Head(qs)[2] IN
         IF Len(qs) = 1 THEN one ELSE one \o <<"&">> \o JoinQueries(Tail(qs))

\* a variant of the rendering that writes the separators of absent components
DisplayEmptyComponents(u) ==
    ProtocolAsStr(u.protocol) \o <<":","/","/">>
    \o (IF u.userinfo = None THEN <<>>
        ELSE u.userinfo[1].username
             \o (IF u.userinfo[1].password = None THEN <<>>
                 ELSE <<":">> \o u.userinfo[1].password[1])
             \o <<"@">>)
    \o u.domain
    \o (IF u.uri = None THEN <<>> ELSE u.uri[1])
    \o <<"?">> \o (IF u.queries = None THEN <<>> ELSE JoinQueries(u.queries[1]))
    \o <<"#">> \o (IF u.fragment = None THEN <<>> ELSE u.fragment[1])

\* impl fmt::Display for CurlUrl
Display(u) ==
    ProtocolAsStr(u.protocol) \o <<":","/","/">>
    \o (IF u.userinfo = None THEN <<>>
        ELSE u.userinfo[1].username
             \o (IF u.userinfo[1].password = None THEN <<>>
                 ELSE <<":">> \o u.userinfo[1].password[1])
             \o <<"@">>)
    \o u.domain
    \o (IF u.uri = None THEN <<>> ELSE u.uri[1])
    \o (IF u.queries = None \/ u.queries[1] = <<>> THEN <<>>
        ELSE <<"?">> \o JoinQueries(u.queries[1]))
    \o (IF u.fragment = None THEN <<>> ELSE <<"#">> \o u.fragment[1])

----------------------------------------------------------------------------
(* URL decomposer (curl/parser/url.rs).                                    *)

\* a variant of protocol_parse that falls back to https when no scheme
\* followed by :// is found
protocol_parse_default_scheme(s) ==
    LET Scheme(a, n) ==
            IF StartsWith(Drop(a, n), <<":","/","/">>)
            THEN Ok(Drop(a, n + 3), Take(a, n))
            ELSE Ok(a, <<"h","t","t","p","s">>)
        AfterSpace(a) ==
            Scheme(a, SpanLen(a, Alpha)
                      + SpanLen(Drop(a, SpanLen(a, Alpha)), AlphaNum))
    IN AfterSpace(multispace0(s))

\* preceded(multispace0, (alpha1, alphanumeric0, char(':'), tag("//")))
protocol_parse(s) ==
    LET Scheme(a, n) ==
            IF StartsWith(Drop(a, n), <<":","/","/">>)
            THEN Ok(Drop(a, n + 3), Take(a, n))
            ELSE Error
        Letters(a, n1) ==
            IF n1 = 0 THEN Error
            ELSE Scheme(a, n1 + SpanLen(Drop(a, n1), AlphaNum))
        AfterSpace(a) == Letters(a, SpanLen(a, Alpha))
    IN AfterSpace(multispace0(s))

\* nom take_till(|c| c is in stop): never fails
TakeTill(s, stop) ==
    LET Cut(n) == Ok(Drop(s, n), Take(s, n)) IN Cut(TillLen(s, stop))

\* take_till(|c| c == '/')
credentials_domain_parse(s) == TakeTill(s, {"/"})

credentials_domain_to_userinfo_parse(s) ==
    LET At(at_index) ==
            IF at_index # 0 THEN Ok(Drop(s, at_index), Take(s, at_index - 1))
            ELSE Failure
    IN At(Find(s, "@"))

credentials_domain_to_host_parse(s) ==
    LET At(at_index) ==
            IF at_index # 0 THEN Ok(Take(s, at_index - 1), Drop(s, at_index))
            ELSE Ok(<<>>, s)
    IN At(Find(s, "@"))

\* take_till(|c| c == '?')
uri_parse(s) == TakeTill(s, {"?"})

\* take_till(|c| c == '#')
queries_parse(s) == TakeTill(s, {"#"})

\* str::split(sep): the pieces between separators, empty pieces included
RECURSIVE Split(_, _)
Split(s, sep) ==
    IF \A i \in DOMAIN s : s[i] # sep THEN <<s>>
    ELSE <<Take(s, Find(s, sep) - 1)>> \o Split(Drop(s, Find(s, sep)), sep)

\* a variant of QueryPair that splits on the last '=' of the piece
QueryPairLastEq(query) ==
    IF \A i \in DOMAIN query : query[i] # "=" THEN <<query, <<>> >>
    ELSE LET SplitAt(i) == <<Take(query, i - 1), Drop(query, i)>>
         IN SplitAt(CHOOSE i \in DOMAIN query :
                        /\ query[i] = "="
                        /\ \A j \in (i + 1)..Len(query) : query[j] # "=")

\* query.splitn(2, '='): (key, value), value "" when there is no '='
QueryPair(query) ==
    LET SplitAt(i) ==
            IF i = 0 THEN <<query, <<>> >>
            ELSE <<Take(query, i - 1), Drop(query, i)>>
    IN SplitAt(Find(query, "="))

RECURSIVE QueryPairs(_)
QueryPairs(pieces) ==
    IF pieces = <<>> THEN <<>>
    ELSE IF Head(pieces) = <<>> THEN QueryPairs(Tail(pieces))
    ELSE <<QueryPair(Head(pieces))>> \o QueryPairs(Tail(pieces))

queries_to_query_fragments(s) ==
    LET queries == IF StartsWith(s, <<"?">>) THEN Tail(s) ELSE s IN
    QueryPairs(Split(queries, "&"))

\* (char('#'), alphanumeric1)
fragment_parse(s) ==
    LET Name(a, n) == IF n = 0 THEN Error ELSE Ok(Drop(a, n), Take(a, n)) IN
    IF s # <<>> /\ Head(s) = "#"
    THEN Name(Tail(s), SpanLen(Tail(s), AlphaNum))
    ELSE Error

\* the map_res closure of curl_url_parse: builds the CurlUrl from the pieces
BuildCurlUrl(protocol, credentials, uri, queries, fragment) ==
    LET WithUri(u) == IF uri # None THEN set_uri(u, uri[1]) ELSE u
        WithQueries(u) ==
            IF queries # None
            THEN set_queries(u, queries_to_query_fragments(queries[1]))
            ELSE u
        WithFragment(u) ==
            IF fragment # None THEN set_fragment(u, fragment[1]) ELSE u
        SetUser(u, ui) == IF ui # None THEN set_userinfo(u, ui[1]) ELSE u
        WithUserinfo(u, raw) ==
            IF IsOk(raw) THEN SetUser(u, UserInfoFromRaw(raw.out)) ELSE u
    IN WithUserinfo(
           WithFragment(WithQueries(WithUri(
               CurlUrlNew(protocol,
                          credentials_domain_to_host_parse(credentials).out)))),
           credentials_domain_to_userinfo_parse(credentials))

\* (protocol_parse, credentials_domain_parse, opt(uri_parse),
\*  opt(queries_parse), opt(fragment_parse)).map_res(..)
curl_url_parse(s) ==
    LET Fragment(p, c, u, q, f) ==
            Ok(IF IsOk(f) THEN f.rest ELSE q.rest,
               BuildCurlUrl(p.out, c.out, Some(u.out), Some(q.out),
                            IF IsOk(f) THEN Some(f.out) ELSE None))
        Queries(p, c, u, q) == Fragment(p, c, u, q, fragment_parse(q.rest))
        Uri(p, c, u) == Queries(p, c, u, queries_parse(u.rest))
        Credentials(p, c) == Uri(p, c, uri_parse(c.rest))
        Protocol(p) ==
            IF IsOk(p) THEN Credentials(p, credentials_domain_parse(p.rest))
            ELSE Error
    IN Protocol(protocol_parse(s))

----------------------------------------------------------------------------
(* Tokens (curl/command.rs).  A token is a record with the fields kind,    *)
(* identifier, data (Option) and url (Option, Some only for a Url token).  *)

Token(kind, identifier, data) ==
    [kind |-> kind, identifier |-> identifier, data |-> data, url |-> None]

\* CurlToken::new_url
new_url(u) ==
    [kind |-> "Url", identifier |-> <<>>, data |-> None, url |-> Some(u)]

\* CurlToken::new: Option<CurlToken>
CurlTokenNew(identifier, param) ==
    IF Trim(param) = <<>> THEN None
    ELSE IF Contains(METHOD_FLAG_IDENTIFIERS, identifier)
    THEN Some(Token("Method", <<"-","X">>, Some(Trim(param))))
    ELSE IF Contains(HEADER_FLAG_IDENTIFIERS, identifier)
    THEN Some(Token("Header", <<"-","H">>, Some(Trim(param))))
    ELSE IF Contains(DATA_FLAG_IDENTIFIERS, identifier)
    THEN Some(Token("Data", <<"-","d">>, Some(param)))
    ELSE None

\* CurlToken::new_flag_with_value: Option<CurlToken>
new_flag_with_value(identifier, value) ==
    LET trimmed == Trim(identifier) IN
    IF trimmed = <<>> THEN None
    ELSE Some(Token("Flag", trimmed,
                    IF value # None /\ Trim(value[1]) # <<>>
                    THEN Some(Trim(value[1])) ELSE None))

\* CurlToken::new_flag
new_flag(identifier) == new_flag_with_value(identifier, None)

\* CurlToken::expects_value
expects_value(identifier) ==
    LET normalized == Trim(identifier) IN
    \/ Contains(METHOD_FLAG_IDENTIFIERS, normalized)
    \/ Contains(HEADER_FLAG_IDENTIFIERS, normalized)
    \/ Contains(DATA_FLAG_IDENTIFIERS, normalized)

\* CurlToken::flag_requires_value
flag_requires_value(identifier) ==
    LET normalized == Trim(identifier) IN
    \/ Contains(FLAG_VALUE_REQUIRED, normalized)
    \/ Contains(SHORT_FLAGS_VALUE_REQUIRED, normalized)

\* CurlToken::data: the data of a Method, Header or Data token, else None
TokenData(t) ==
    IF t.kind \in {"Method", "Header", "Data"} THEN t.data ELSE None

----------------------------------------------------------------------------
(* Token parsers (curl/parser/command.rs).                                 *)

\* (multispace0, quoted_data_parse).map_res(curl_url_parse(data) ..)
url_parse(s) ==
    LET MapRes(q, u) == IF IsOk(u) THEN Ok(q.rest, new_url(u.out)) ELSE Error
        Quoted(q) == IF IsOk(q) THEN MapRes(q, curl_url_parse(q.out)) ELSE q
    IN Quoted(quoted_data_parse(multispace0(s)))

\* opt(slash_line_ending) then multispace0
SkipContinuation(s) ==
    LET Opt(c) == IF IsOk(c) THEN c.rest ELSE s IN
    multispace0(Opt(slash_line_ending(s)))

\* alt((tag(t1), tag(t2), ..)): index of the first tag that prefixes s, or 0
FirstTag(tags, s) ==
    IF \E i \in DOMAIN tags : StartsWith(s, tags[i])
    THEN CHOOSE i \in DOMAIN tags :
             /\ StartsWith(s, tags[i])
             /\ \A j \in 1..(i - 1) : ~StartsWith(s, tags[j])
    ELSE 0

\* the argument parser a parse_command! parser applies after multispace1
CommandValueParse(s) == quoted_data_parse(s)

\* macro parse_command!: (opt(slash_line_ending), multispace0, alt(tags),
\* multispace1, quoted_data_parse).map_res(Curl::new(method, data))
ParseCommand(tags, s) ==
    LET MapRes(d, t) == IF t = None THEN Error ELSE Ok(d.rest, t[1])
        Value(method, d) ==
            IF IsOk(d) THEN MapRes(d, CurlTokenNew(method, d.out)) ELSE d
        Space1(method, b, n) ==
            IF n = 0 THEN Error
            ELSE Value(method, CommandValueParse(Drop(b, n)))
        AfterTag(method, b) == Space1(method, b, SpanLen(b, MultiSpace))
        Tag(a, i) ==
            IF i = 0 THEN Error ELSE AfterTag(tags[i], Drop(a, Len(tags[i])))
        AfterSkip(a) == Tag(a, FirstTag(tags, a))
    IN AfterSkip(SkipContinuation(s))

MethodTags == << <<"-","X">>, <<"-","-","r","e","q","u","e","s","t">> >>
HeaderTags == << <<"-","H">>, <<"-","-","h","e","a","d","e","r">> >>
DataTags ==
    << <<"-","d">>, <<"-","-","d","a","t","a">>, <<"-","-","d","a","t","a","-","r","a","w">>, <<"-","-","d","a","t","a","-","b","i","n","a","r","y">>,
       <<"-","-","d","a","t","a","-","u","r","l","e","n","c","o","d","e">> >>

method_parse(s) == ParseCommand(MethodTags, s)
header_parse(s) == ParseCommand(HeaderTags, s)
data_parse(s) == ParseCommand(DataTags, s)

\* is_alphanumeric() || matches!(c, '-' | '_')
FlagChars == AlphaNum \cup {"-", "_"}

\* recognize((char('-'), opt(char('-')), take_while1(FlagChars)))
FlagIdentLen(s) ==
    LET Name(d, n) == IF n = 0 THEN 0 ELSE d + n
        Dashes(d) == Name(d, SpanLen(Drop(s, d), FlagChars))
    IN IF s = <<>> \/ Head(s) # "-" THEN 0
       ELSE Dashes(IF Len(s) >= 2 /\ s[2] = "-" THEN 2 ELSE 1)

\* a variant of the closure that does not look at the identifier's class
FlagTokenUnclassified(flag) == new_flag(flag)

\* the map_res closure of flag_parse
FlagToken(flag) ==
    IF expects_value(flag) THEN None ELSE new_flag(flag)

\* a variant of flag_parse that accepts a missing identifier as the flag "-"
flag_parse_empty_identifier(s) ==
    LET MapRes(r, t) == IF t = None THEN Error ELSE Ok(r, t[1])
        Flag(a, n) ==
            IF n = 0 THEN Ok(a, Token("Flag", <<"-">>, None))
            ELSE MapRes(Drop(a, n), FlagToken(Take(a, n)))
        AfterSkip(a) == Flag(a, FlagIdentLen(a))
    IN AfterSkip(SkipContinuation(s))

flag_parse(s) ==
    LET MapRes(r, t) == IF t = None THEN Error ELSE Ok(r, t[1])
        Flag(a, n) ==
            IF n = 0 THEN Error ELSE MapRes(Drop(a, n), FlagToken(Take(a, n)))
        AfterSkip(a) == Flag(a, FlagIdentLen(a))
    IN AfterSkip(SkipContinuation(s))

\* a variant of the combined parser that leaves out header_parse
AnyCommandParseNoHeader(s) ==
    Alt(method_parse(s), Alt(data_parse(s), flag_parse(s)))

\* alt((method_parse, header_parse, data_parse, flag_parse)): an Error moves
\* on to the next parser, a Failure is returned at once
AnyCommandParse(s) ==
    Alt(method_parse(s),
        Alt(header_parse(s), Alt(data_parse(s), flag_parse(s))))

----------------------------------------------------------------------------
(* Request builder (curl/request.rs).                                      *)

\* a variant of the fold in which the first Method token wins
RECURSIVE FoldTokensFirstMethod(_, _)
FoldTokensFirstMethod(acc, ts) ==
    IF ts = <<>> THEN acc
    ELSE LET Step(t) ==
               CASE t.kind = "Url" -> [acc EXCEPT !.url = t.url]
                 [] t.kind = "Method" ->
                      IF acc.method = None
                      THEN [acc EXCEPT !.method = TokenData(t)] ELSE acc
                 [] t.kind = "Header" ->
                      [acc EXCEPT !.headers = Append(@, TokenData(t)[1])]
                 [] t.kind = "Data" ->
                      [acc EXCEPT !.data = Append(@, TokenData(t)[1])]
                 [] OTHER -> [acc EXCEPT !.flags = Append(@, t.identifier)]
         IN FoldTokensFirstMethod(Step(Head(ts)), Tail(ts))

\* a variant of the fold that pushes each header to the front of the list
RECURSIVE FoldTokensPrepend(_, _)
FoldTokensPrepend(acc, ts) ==
    IF ts = <<>> THEN acc
    ELSE LET Step(t) ==
               CASE t.kind = "Url" -> [acc EXCEPT !.url = t.url]
                 [] t.kind = "Method" -> [acc EXCEPT !.method = TokenData(t)]
                 [] t.kind = "Header" ->
                      [acc EXCEPT !.headers = <<TokenData(t)[1]>> \o @]
                 [] t.kind = "Data" ->
                      [acc EXCEPT !.data = Append(@, TokenData(t)[1])]
                 [] OTHER -> [acc EXCEPT !.flags = Append(@, t.identifier)]
         IN FoldTokensPrepend(Step(Head(ts)), Tail(ts))

\* a variant of the fold that lists a Flag token's value after its identifier
RECURSIVE FoldTokensFlagValues(_, _)
FoldTokensFlagValues(acc, ts) ==
    IF ts = <<>> THEN acc
    ELSE LET Step(t) ==
               CASE t.kind = "Url" -> [acc EXCEPT !.url = t.url]
                 [] t.kind = "Method" -> [acc EXCEPT !.method = TokenData(t)]
                 [] t.kind = "Header" ->
                      [acc EXCEPT !.headers = Append(@, TokenData(t)[1])]
                 [] t.kind = "Data" ->
                      [acc EXCEPT !.data = Append(@, TokenData(t)[1])]
                 [] OTHER -> [acc EXCEPT !.flags = Append(@, t.identifier) \o t.data]
         IN FoldTokensFlagValues(Step(Head(ts)), Tail(ts))

\* the fold of try_from_tokens over the tokens, from an accumulator
RECURSIVE FoldTokens(_, _)
FoldTokens(acc, ts) ==
    IF ts = <<>> THEN acc
    ELSE LET Step(t) ==
               CASE t.kind = "Url" -> [acc EXCEPT !.url = t.url]
                 [] t.kind = "Method" -> [acc EXCEPT !.method = TokenData(t)]
                 [] t.kind = "Header" ->
                      IF TokenData(t) # None
                      THEN [acc EXCEPT !.headers = Append(@, TokenData(t)[1])]
                      ELSE acc
                 [] t.kind = "Data" ->
                      IF TokenData(t) # None
                      THEN [acc EXCEPT !.data = Append(@, TokenData(t)[1])]
                      ELSE acc
                 [] OTHER -> [acc EXCEPT !.flags = Append(@, t.identifier)]
         IN FoldTokens(Step(Head(ts)), Tail(ts))

\* a variant of try_from_tokens that accepts a Url token only in first place
try_from_tokens_url_first(ts) ==
    LET Build(acc) ==
            IF acc.url = None \/ ts[1].kind # "Url" THEN None
            ELSE Some([url |-> acc.url[1], method |-> acc.method,
                       headers |-> acc.headers, data |-> acc.data,
                       flags |-> acc.flags, tokens |-> ts])
    IN Build(FoldTokens([url |-> None, method |-> None, headers |-> <<>>,
                         data |-> <<>>, flags |-> <<>>], ts))

\* ParsedRequest::try_from_tokens: Some(request), or None for MissingUrl
try_from_tokens(ts) ==
    LET Build(acc) ==
            IF acc.url = None THEN None
            ELSE Some([url |-> acc.url[1], method |-> acc.method,
                       headers |-> acc.headers, data |-> acc.data,
                       flags |-> acc.flags, tokens |-> ts])
    IN Build(FoldTokens([url |-> None, method |-> None, headers |-> <<>>,
                         data |-> <<>>, flags |-> <<>>], ts))

----------------------------------------------------------------------------
(* Inputs of parse_curl_command.  A command line is assembled from pieces: *)
(* a prefix, a URL argument and a bounded number of further arguments.     *)
(* Each piece records its text and what it stands for on a curl command    *)
(* line (kind and value), which is what the properties compare against.    *)

MaxArgs == 2

Piece(text, kind, value) == [text |-> text, kind |-> kind, value |-> value]

GoodPrefixes ==
    { Piece(<<"c","u","r","l">>, "Prefix", <<>>), Piece(<<" ","\t","\n","C","u","r","L">>, "Prefix", <<>>) }
BadPrefixes ==
    { Piece(<<>>, "NoPrefix", <<>>), Piece(<<"w","g","e","t">>, "NoPrefix", <<>>),
      Piece(<<"c","u","r">>, "NoPrefix", <<>>), Piece(<<"-","c","u","r","l">>, "NoPrefix", <<>>) }

GoodUrlArgs ==
    { Piece(<<" ","'","h","t","t","p","s",":","/","/","e","x","a","m","p","l","e",".","c","o","m","'">>, "Url", <<"h","t","t","p","s",":","/","/","e","x","a","m","p","l","e",".","c","o","m">>),
      Piece(<<" ","\"","h","t","t","p",":","/","/","u",":","p","w","@","c","u","r","l",".","s","e",":","8","0","/","a","/","b","?","k","=","v","&","x","=","1","#","F","2","\"">>, "Url",
            <<"h","t","t","p",":","/","/","u",":","p","w","@","c","u","r","l",".","s","e",":","8","0","/","a","/","b","?","k","=","v","&","x","=","1","#","F","2">>) }
BadUrlArgs ==
    { Piece(<<>>, "NoUrl", <<>>),
      Piece(<<" ","h","t","t","p","s",":","/","/","e","x","a","m","p","l","e",".","c","o","m">>, "Url", <<"h","t","t","p","s",":","/","/","e","x","a","m","p","l","e",".","c","o","m">>),
      Piece(<<" ","'","e","x","a","m","p","l","e",".","c","o","m","'">>, "NoUrl", <<>>),
      Piece(<<" ","'","h","t","t","p","s",":","/","/","e","x","a","m","p","l","e",".","c","o","m">>, "Unclosed", <<>>),
      Piece(<<" ","'",":","/","/","h","'">>, "NoUrl", <<>>),
      Piece(<<" ","'","1","s",":","/","/","h","'">>, "NoUrl", <<>>),
      Piece(<<" ","\"","h","t","t","p",":","/","h","\"">>, "NoUrl", <<>>) }

ArgVocab ==
    { Piece(<<" ","-","H"," ","'","A",":","1","'">>, "Header", <<"A",":","1">>),
      Piece(<<" ","-","H"," ","\"","B",":","2","\"">>, "Header", <<"B",":","2">>),
      Piece(<<" ","\\","\n"," ","-","-","h","e","a","d","e","r"," ","'","C",":"," ","3","'">>, "Header", <<"C",":"," ","3">>),
      Piece(<<" ","-","X"," ","'","G","E","T","'">>, "Method", <<"G","E","T">>),
      Piece(<<" ","-","-","r","e","q","u","e","s","t"," ","\"","P","O","S","T","\"">>, "Method", <<"P","O","S","T">>),
      Piece(<<" ","-","d"," ","'","x","=","1","'">>, "Data", <<"x","=","1">>),
      Piece(<<" ","-","-","d","a","t","a"," ","n","a","m","e","=","v","a","l","u","e">>, "Data", <<"n","a","m","e","=","v","a","l","u","e">>),
      Piece(<<" ","-","-","d","a","t","a","-","r","a","w"," ","'","r","'">>, "Data", <<"r">>),
      Piece(<<" ","-","-","i","n","s","e","c","u","r","e">>, "Flag", <<"-","-","i","n","s","e","c","u","r","e">>),
      Piece(<<" ","\\","\n"," ","-","k">>, "Flag", <<"-","k">>),
      Piece(<<" ","-","-","r","e","t","r","y"," ","3">>, "Flag", <<"-","-","r","e","t","r","y">>),
      Piece(<<" ","-","H"," ","'","A">>, "Unclosed", <<>>),
      Piece(<<" ","-","d"," ","\"","x","=","1">>, "Unclosed", <<>>),
      Piece(<<" ","s","t","r","a","y">>, "Stray", <<>>) }

\* sequences of at most n arguments; a quote left open is never closed by a
\* later argument
RECURSIVE ArgSeqs(_)
ArgSeqs(n) ==
    IF n = 0 THEN { <<>> }
    ELSE ArgSeqs(n - 1)
         \cup { Append(x[1], x[2]) :
                  x \in { y \in ArgSeqs(n - 1) \X ArgVocab :
                            \/ y[1] = <<>>
                            \/ y[1][Len(y[1])].kind # "Unclosed" } }

\* command lines of the tests and of the documented scenarios
Curl == Piece(<<"c","u","r","l">>, "Prefix", <<>>)
Example == Piece(<<" ","'","h","t","t","p","s",":","/","/","e","x","a","m","p","l","e",".","c","o","m","'">>, "Url", <<"h","t","t","p","s",":","/","/","e","x","a","m","p","l","e",".","c","o","m">>)
ScenarioCommands ==
    { <<Curl, Example, Piece(<<" ","-","H"," ","'","A",":","1","'">>, "Header", <<"A",":","1">>),
        Piece(<<" ","-","-","d","a","t","a"," ","n","a","m","e","=","v","a","l","u","e">>, "Data", <<"n","a","m","e","=","v","a","l","u","e">>),
        Piece(<<" ","-","-","i","n","s","e","c","u","r","e">>, "Flag", <<"-","-","i","n","s","e","c","u","r","e">>)>>,
      <<Curl, Example, Piece(<<" ","-","H"," ","'","A",":","1","'">>, "Header", <<"A",":","1">>),
        Piece(<<" ","-","d"," ","'","n","a","m","e","=","v","a","l","u","e","'">>, "Data", <<"n","a","m","e","=","v","a","l","u","e">>),
        Piece(<<" ","-","-","i","n","s","e","c","u","r","e">>, "Flag", <<"-","-","i","n","s","e","c","u","r","e">>)>>,
      <<Curl, Example, Piece(<<" ","-","H"," ","'","H","1","'">>, "Header", <<"H","1">>),
        Piece(<<" ","-","H"," ","'","H","2","'">>, "Header", <<"H","2">>),
        Piece(<<" ","-","H"," ","'","H","3","'">>, "Header", <<"H","3">>)>>,
      <<Curl, Example, Piece(<<" ","-","H"," ","'","H","2","'">>, "Header", <<"H","2">>),
        Piece(<<" ","-","X"," ","'","G","E","T","'">>, "Method", <<"G","E","T">>),
        Piece(<<" ","-","H"," ","'","H","1","'">>, "Header", <<"H","1">>),
        Piece(<<" ","-","H"," ","'","H","2","'">>, "Header", <<"H","2">>),
        Piece(<<" ","-","X"," ","'","P","O","S","T","'">>, "Method", <<"P","O","S","T">>)>>,
      <<Piece(<<>>, "NoPrefix", <<>>),
        Piece(<<"'","h","t","t","p","s",":","/","/","c","u","r","l",".","s","e","/","x","'">>, "Url", <<"h","t","t","p","s",":","/","/","c","u","r","l",".","s","e","/","x">>),
        Piece(<<" ","-","H"," ","'","A",":","1","'">>, "Header", <<"A",":","1">>)>> }

CommandPieces ==
    { <<p, u>> \o s : p \in GoodPrefixes, u \in GoodUrlArgs, s \in ArgSeqs(MaxArgs) }
    \cup { <<x[1], x[2]>> \o x[3] :
             x \in { y \in GoodPrefixes \X BadUrlArgs \X ArgSeqs(1) :
                       y[2].kind = "Unclosed" => y[3] = <<>> } }
    \cup { <<p, u>> \o s : p \in BadPrefixes, u \in GoodUrlArgs, s \in ArgSeqs(1) }
    \cup ScenarioCommands

\* the text of a sequence of pieces
RECURSIVE Flatten(_)
Flatten(ps) == IF ps = <<>> THEN <<>> ELSE Head(ps).text \o Flatten(Tail(ps))

----------------------------------------------------------------------------
(* parse_curl_command (curl/request.rs) over curl_cmd_parse and            *)
(* commands_parse (curl/parser/command.rs), one step per parser applied.   *)

NoResult == [st |-> "none", rest |-> <<>>, out |-> <<>>]

Init ==
    /\ parts \in CommandPieces
    /\ input = Flatten(parts)
    /\ pc = "start"
    /\ rest = input
    /\ tokens = <<>>
    /\ request = None
    /\ err = "none"
    /\ result = NoResult
    /\ url = None
    /\ rendered = None

\* curl_cmd_parse: the is_curl guard and remove_curl_cmd_header
CheckCurl ==
    /\ pc = "start"
    /\ IF is_curl(input)
       THEN /\ rest' = remove_curl_cmd_header(input)
            /\ pc' = "url"
            /\ err' = err
       ELSE /\ pc' = "failed"
            /\ err' = "Error"
            /\ rest' = rest
    /\ UNCHANGED <<parts, input, tokens, request, result, url, rendered>>

\* curl_cmd_parse: url_parse(trimmed)?
ParseUrl ==
    /\ pc = "url"
    /\ \E r \in {url_parse(rest)} :
       IF IsOk(r)
       THEN /\ tokens' = <<r.out>>
            /\ rest' = r.rest
            /\ pc' = "commands"
            /\ err' = err
       ELSE /\ pc' = "failed"
            /\ err' = r.st
            /\ UNCHANGED <<tokens, rest>>
    /\ UNCHANGED <<parts, input, request, result, url, rendered>>

\* a variant of the fold_many0 step that puts each new token right after
\* the Url token instead of at the end
CommandsTokenReversed ==
    /\ pc = "commands"
    /\ \E r \in {AnyCommandParse(rest)} :
       /\ IsOk(r)
       /\ Len(r.rest) < Len(rest)
       /\ tokens' = <<Head(tokens), r.out>> \o Tail(tokens)
       /\ rest' = r.rest
       /\ UNCHANGED <<pc, err>>
    /\ UNCHANGED <<parts, input, request, result, url, rendered>>

\* commands_parse, fold_many0: the combined parser yields a token
CommandsToken ==
    /\ pc = "commands"
    /\ \E r \in {AnyCommandParse(rest)} :
       /\ IsOk(r)
       /\ IF Len(r.rest) = Len(rest)
          THEN /\ pc' = "failed"
               /\ err' = "Error"
               /\ UNCHANGED <<tokens, rest>>
          ELSE /\ tokens' = Append(tokens, r.out)
               /\ rest' = r.rest
               /\ UNCHANGED <<pc, err>>
    /\ UNCHANGED <<parts, input, request, result, url, rendered>>

\* commands_parse, fold_many0: an Error ends the loop with the tokens so far
CommandsStop ==
    /\ pc = "commands"
    /\ AnyCommandParse(rest).st = "Error"
    /\ pc' = "build"
    /\ UNCHANGED <<parts, input, rest, tokens, request, err, result, url, rendered>>

\* commands_parse, fold_many0: a Failure is returned to the caller
CommandsFail ==
    /\ pc = "commands"
    /\ AnyCommandParse(rest).st = "Failure"
    /\ pc' = "failed"
    /\ err' = "Failure"
    /\ UNCHANGED <<parts, input, rest, tokens, request, result, url, rendered>>

\* parse_curl_command: ParsedRequest::try_from_tokens(tokens)
BuildRequest ==
    /\ pc = "build"
    /\ \E r \in {try_from_tokens(tokens)} :
       IF r = None
       THEN /\ pc' = "failed"
            /\ err' = "MissingUrl"
            /\ request' = request
       ELSE /\ pc' = "done"
            /\ request' = r
            /\ err' = err
    /\ UNCHANGED <<parts, input, rest, tokens, result, url, rendered>>

Next ==
    \/ CheckCurl
    \/ ParseUrl
    \/ CommandsToken
    \/ CommandsStop
    \/ CommandsFail
    \/ BuildRequest

Spec == Init /\ [][Next]_vars

----------------------------------------------------------------------------
(* Properties of parse_curl_command, over the behaviours of Spec.          *)

Finished == pc \in {"done", "failed"}

\* the arguments that follow the prefix and the URL argument
Args == SubSeq(parts, 3, Len(parts))

\* the values of the pieces of one kind, in order
RECURSIVE ValuesOfKind(_, _)
ValuesOfKind(ps, kind) ==
    IF ps = <<>> THEN <<>>
    ELSE (IF Head(ps).kind = kind THEN <<Head(ps).value>> ELSE <<>>)
         \o ValuesOfKind(Tail(ps), kind)

\* the number of leading arguments that lie wholly in the consumed text
ConsumedArgs ==
    CHOOSE k \in 0..Len(Args) :
        /\ Len(Flatten(SubSeq(parts, 1, 2 + k))) <= Len(input) - Len(rest)
        /\ \A j \in (k + 1)..Len(Args) :
               Len(Flatten(SubSeq(parts, 1, 2 + j))) > Len(input) - Len(rest)

ExampleUrl ==
    [protocol |-> [tag |-> "Https", value |-> <<>>], userinfo |-> None,
     domain |-> <<"e","x","a","m","p","l","e",".","c","o","m">>, uri |-> None, queries |-> None,
     fragment |-> None]

ScenarioUnquotedData ==
    <<Curl, Example, Piece(<<" ","-","H"," ","'","A",":","1","'">>, "Header", <<"A",":","1">>),
      Piece(<<" ","-","-","d","a","t","a"," ","n","a","m","e","=","v","a","l","u","e">>, "Data", <<"n","a","m","e","=","v","a","l","u","e">>),
      Piece(<<" ","-","-","i","n","s","e","c","u","r","e">>, "Flag", <<"-","-","i","n","s","e","c","u","r","e">>)>>

\* C1: the command curl 'https://example.com' -H 'A:1' --data name=value
\* --insecure parses to exactly the four tokens Url(https://example.com),
\* Header "A:1", Data "name=value", Flag "--insecure" (no data), and the
\* summary has headers ["A:1"], data ["name=value"], flags ["--insecure"] and
\* no method.
C1_ScenarioParses ==
    (parts = ScenarioUnquotedData /\ Finished) =>
        /\ pc = "done"
        /\ request # None
        /\ request[1].tokens =
             << new_url(ExampleUrl),
                Token("Header", <<"-","H">>, Some(<<"A",":","1">>)),
                Token("Data", <<"-","d">>, Some(<<"n","a","m","e","=","v","a","l","u","e">>)),
                Token("Flag", <<"-","-","i","n","s","e","c","u","r","e">>, None) >>
        /\ request[1].headers = << <<"A",":","1">> >>
        /\ request[1].data = << <<"n","a","m","e","=","v","a","l","u","e">> >>
        /\ request[1].flags = << <<"-","-","i","n","s","e","c","u","r","e">> >>
        /\ request[1].method = None

\* the left-trimmed text begins with c, u, r, l in either letter case
BeginsWithCurl(s) ==
    \E t \in {TrimStart(s)} :
        /\ Len(t) >= 4
        /\ t[1] \in {"c", "C"} /\ t[2] \in {"u", "U"}
        /\ t[3] \in {"r", "R"} /\ t[4] \in {"l", "L"}

\* C2: an input whose left-trimmed text does not begin, in any letter case,
\* with curl ends in an error: no token is produced and no ParsedRequest,
\* whatever follows in the input.
C2_NotCurlFails ==
    (~BeginsWithCurl(input) /\ pc # "start") =>
        /\ pc = "failed"
        /\ err = "Error"
        /\ tokens = <<>>
        /\ request = None

C2_Witness ==
    /\ ~BeginsWithCurl(input)
    /\ pc = "failed"
    /\ parts[2].kind = "Url"
    /\ Len(parts) >= 3

\* C5 as claimed: after a successful parse the headers are the texts of all
\* the header flags of the input, in input order, none dropped.
C5_AllHeadersKept ==
    pc = "done" => request[1].headers = ValuesOfKind(Args, "Header")

\* C5 amended: after a successful parse the headers are the texts of the
\* header flags that lie before the position where the token stream ended,
\* in input order, duplicates kept; H1, H2, H3 yield [H1, H2, H3].
C5_ConsumedHeadersInOrder ==
    pc = "done" =>
        /\ request[1].headers =
             ValuesOfKind(SubSeq(Args, 1, ConsumedArgs), "Header")
        /\ (/\ ConsumedArgs = Len(Args)
            /\ ValuesOfKind(Args, "Header") = << <<"H","1">>, <<"H","2">>, <<"H","3">> >>)
           => request[1].headers = << <<"H","1">>, <<"H","2">>, <<"H","3">> >>

C5_Witness ==
    /\ pc = "done"
    /\ request[1].headers = << <<"H","2">>, <<"H","1">>, <<"H","2">> >>

\* the data of the last Method token of a token sequence, None without one
LastMethodData(ts) ==
    IF \A i \in DOMAIN ts : ts[i].kind # "Method" THEN None
    ELSE ts[CHOOSE i \in DOMAIN ts :
                /\ ts[i].kind = "Method"
                /\ \A j \in (i + 1)..Len(ts) : ts[j].kind # "Method"].data

\* C6: the method of the request is the data of the last Method token of
\* the token sequence (an input whose parsed flags hold -X 'GET' and then
\* -X 'POST' gives Some("POST")), and None when there is no Method token.
C6_LastMethodWins ==
    pc = "done" =>
        /\ request[1].method = LastMethodData(request[1].tokens)
        /\ (ValuesOfKind(SubSeq(Args, 1, ConsumedArgs), "Method")
              = << <<"G","E","T">>, <<"P","O","S","T">> >>)
           => request[1].method = Some(<<"P","O","S","T">>)

C6_Witness ==
    /\ pc = "done"
    /\ request[1].method = Some(<<"P","O","S","T">>)
    /\ \E i \in DOMAIN tokens :
           tokens[i].kind = "Method" /\ tokens[i].data = Some(<<"G","E","T">>)

----------------------------------------------------------------------------
(* Inputs of curl_url_parse.  A URL of the documented shape                *)
(* scheme://[user[:pass]@]host[/path][?k=v&...][#frag] is assembled from   *)
(* its components, each recorded as a piece; other texts are single pieces *)
(* of kind "Odd".                                                          *)

MaxPairs == 2

Schemes ==
    { Piece(<<"h","t","t","p",":","/","/">>, "Scheme", <<"h","t","t","p">>),
      Piece(<<"h","t","t","p","s",":","/","/">>, "Scheme", <<"h","t","t","p","s">>),
      Piece(<<"f","t","p",":","/","/">>, "Scheme", <<"f","t","p">>),
      Piece(<<"F","T","P",":","/","/">>, "Scheme", <<"F","T","P">>),
      Piece(<<"S","m","b",":","/","/">>, "Scheme", <<"S","m","b">>),
      Piece(<<"s","3",":","/","/">>, "Scheme", <<"s","3">>),
      Piece(<<"G","i","t","2",":","/","/">>, "Scheme", <<"G","i","t","2">>) }
UserInfos ==
    { <<>>, << Piece(<<"u","@">>, "UserInfo", <<"u">>) >>,
      << Piece(<<"u",":","p","w","@">>, "UserInfo", <<"u",":","p","w">>) >>,
      << Piece(<<"u",":","p","@","w","@">>, "UserInfo", <<"u",":","p","@","w">>) >> }
Hosts ==
    { Piece(<<"h">>, "Host", <<"h">>), Piece(<<"c","u","r","l",".","s","e",":","8","0">>, "Host", <<"c","u","r","l",".","s","e",":","8","0">>) }
Paths ==
    { <<>>, << Piece(<<"/">>, "Path", <<"/">>) >>,
      << Piece(<<"/","a","/","b">>, "Path", <<"/","a","/","b">>) >> }
PairVocab == { << <<"k">>, <<"v">> >>, << <<"e">>, <<>> >> }
Fragments == { <<>>, << Piece(<<"#","F","2">>, "Fragment", <<"F","2">>) >> }

\* sequences of at most n query pairs
RECURSIVE PairSeqs(_)
PairSeqs(n) ==
    IF n = 0 THEN { <<>> }
    ELSE PairSeqs(n - 1)
         \cup { Append(s, p) : s \in PairSeqs(n - 1), p \in PairVocab }

\* the text k=v&k=v of a sequence of pairs
RECURSIVE PairsText(_)
PairsText(qs) ==
    IF qs = <<>> THEN <<>>
    ELSE Head(qs)[1] \o <<"=">> \o Head(qs)[2]
         \o (IF Len(qs) = 1 THEN <<>> ELSE <<"&">> \o PairsText(Tail(qs)))

QueryPieces ==
    { IF qs = <<>> THEN <<>>
      ELSE << Piece(<<"?">> \o PairsText(qs), "Query", PairsText(qs)) >> :
        qs \in PairSeqs(MaxPairs) }

ShapedUrls ==
    { <<s>> \o u \o <<h>> \o p \o q \o f :
        s \in Schemes, u \in UserInfos, h \in Hosts, p \in Paths,
        q \in QueryPieces, f \in Fragments }

OddUrls ==
    { << Piece(t, "Odd", <<>>) >> :
        t \in { <<"s",":","/","/","h","/","p","?","#","f">>, <<"s",":","/","/","h","?","k">>, <<"s",":","/","/","h","/","p","?","k">>, <<"s",":","/","/","h","/","p","?","a","=","1","&","&","b","=","2">>,
                <<"s",":","/","/","h","/","p","?","k","=","v","#","a","-","b">>, <<"s",":","/","/","@","h">>, <<"s",":","/","/",":","p","w","@","h">>, <<"s",":","/","/","u",":","@","h">>,
                <<"s",":","/","/","a","@","b","@","c","/">>, <<" ","h","t","t","p",":","/","/","h">>, <<":","/","/","h">>, <<"h","/","p">>, <<"1","s",":","/","/","h">>,
                <<"s",":","/","/","/","p">>, <<"s",":","/","/","h","/","p","#","f","?","x","=","1">>, <<"s",":","/","/","h","/","?">>, <<"s",":","/","/","h","/","#">>,
                <<"H","T","T","P",":","/","/","h","/","?","&","#","1">>, <<"s",":","/","/","u","@">>, <<"s",":","/","/","u","@","/","p">>,
                <<"s",":","/","/","@","h","/","p","?","k","=","v","#","f">>, <<"h","t","t","p",":","/","/",":","p","w","@","c","u","r","l",".","s","e",":","8","0","/","a">>, <<>> } }

UrlPieces == ShapedUrls \cup OddUrls

InitUrl ==
    /\ parts \in UrlPieces
    /\ input = Flatten(parts)
    /\ pc = "url_start"
    /\ rest = input
    /\ tokens = <<>>
    /\ request = None
    /\ err = "none"
    /\ result = NoResult
    /\ url = None
    /\ rendered = None

\* curl_url_parse(input)
UrlParse ==
    /\ pc = "url_start"
    /\ \E r \in {curl_url_parse(input)} :
       IF IsOk(r)
       THEN /\ url' = Some(r.out)
            /\ rest' = r.rest
            /\ pc' = "url_parsed"
            /\ err' = err
       ELSE /\ pc' = "url_failed"
            /\ err' = r.st
            /\ UNCHANGED <<url, rest>>
    /\ UNCHANGED <<parts, input, tokens, request, result, rendered>>

\* the Display rendering of the CurlUrl (to_string)
UrlRender ==
    /\ pc = "url_parsed"
    /\ rendered' = Some(Display(url[1]))
    /\ pc' = "url_rendered"
    /\ UNCHANGED <<parts, input, rest, tokens, request, err, result, url>>

\* curl_url_parse of the rendered text
UrlReparse ==
    /\ pc = "url_rendered"
    /\ result' = curl_url_parse(rendered[1])
    /\ pc' = "url_reparsed"
    /\ UNCHANGED <<parts, input, rest, tokens, request, err, url, rendered>>

NextUrl ==
    \/ UrlParse
    \/ UrlRender
    \/ UrlReparse

SpecUrl == InitUrl /\ [][NextUrl]_vars

----------------------------------------------------------------------------
(* Properties of curl_url_parse and of the rendering, over the behaviours  *)
(* of SpecUrl.                                                             *)

Shaped == parts[1].kind = "Scheme"

C4_ReparseEqual ==
    pc = "url_reparsed" => IsOk(result) /\ result.out = url[1]

----------------------------------------------------------------------------
(* Inputs of the single-token parsers method_parse, header_parse,          *)
(* data_parse and flag_parse: a flag spelling, optionally a value, and     *)
(* optionally a following flag.  The spelling piece carries the            *)
(* identifier, a value piece the value it stands for.                      *)

Spelling(id) == Piece(<<" ">> \o id, "Spelling", id)

MethodSpellings == { Spelling(<<"-","X">>), Spelling(<<"-","-","r","e","q","u","e","s","t">>) }
HeaderSpellings == { Spelling(<<"-","H">>), Spelling(<<"-","-","h","e","a","d","e","r">>) }
DataSpellings ==
    { Spelling(<<"-","d">>), Spelling(<<"-","-","d","a","t","a">>), Spelling(<<"-","-","d","a","t","a","-","r","a","w">>),
      Spelling(<<"-","-","d","a","t","a","-","b","i","n","a","r","y">>), Spelling(<<"-","-","d","a","t","a","-","u","r","l","e","n","c","o","d","e">>),
      Spelling(<<"-","-","f","o","r","m">>), Spelling(<<"-","F">>), Spelling(<<"-","-","f","o","r","m","-","s","t","r","i","n","g">>) }
ValueFlagSpellings ==
    { Spelling(<<"-","-","r","e","t","r","y">>), Spelling(<<"-","-","o","u","t","p","u","t">>), Spelling(<<"-","o">>),
      Spelling(<<"-","u">>), Spelling(<<"-","x">>) }
SwitchSpellings ==
    { Spelling(<<"-","-","i","n","s","e","c","u","r","e">>), Spelling(<<"-","k">>), Spelling(<<"-","-","c","o","m","p","r","e","s","s","e","d">>) }

Values ==
    { <<>>,
      << Piece(<<" ","'","G","E","T","'">>, "Quoted", <<"G","E","T">>) >>,
      << Piece(<<" "," ","\"","a"," ","b","\"">>, "Quoted", <<"a"," ","b">>) >>,
      << Piece(<<" ","'"," ","G","E","T"," ","'">>, "Quoted", <<" ","G","E","T"," ">>) >>,
      << Piece(<<" ","\""," "," ","\"">>, "Quoted", <<" "," ">>) >>,
      << Piece(<<" ","3">>, "Bare", <<"3">>) >>,
      << Piece(<<" ","n","a","m","e","=","v","a","l","u","e">>, "Bare", <<"n","a","m","e","=","v","a","l","u","e">>) >>,
      << Piece(<<" ","@","p","a","y","l","o","a","d",".","j","s","o","n">>, "Bare", <<"@","p","a","y","l","o","a","d",".","j","s","o","n">>) >> }

Trailers ==
    { <<>>,
      << Piece(<<" "," "," ","-","-","c","o","m","p","r","e","s","s","e","d">>, "NextFlag", <<"-","-","c","o","m","p","r","e","s","s","e","d">>) >>,
      << Piece(<<" ","-","k">>, "NextFlag", <<"-","k">>) >> }

TokenPieces ==
    { <<n>> \o v \o t :
        n \in MethodSpellings \cup HeaderSpellings \cup DataSpellings
              \cup ValueFlagSpellings \cup SwitchSpellings,
        v \in Values, t \in Trailers }

InitTok ==
    /\ parts \in TokenPieces
    /\ input = Flatten(parts)
    /\ pc = "tok_start"
    /\ rest = input
    /\ tokens = <<>>
    /\ request = None
    /\ err = "none"
    /\ result = NoResult
    /\ url = None
    /\ rendered = None

ApplyMethodParse ==
    /\ pc = "tok_start"
    /\ result' = method_parse(input)
    /\ pc' = "method_parse"
    /\ UNCHANGED <<parts, input, rest, tokens, request, err, url, rendered>>

ApplyHeaderParse ==
    /\ pc = "tok_start"
    /\ result' = header_parse(input)
    /\ pc' = "header_parse"
    /\ UNCHANGED <<parts, input, rest, tokens, request, err, url, rendered>>

ApplyDataParse ==
    /\ pc = "tok_start"
    /\ result' = data_parse(input)
    /\ pc' = "data_parse"
    /\ UNCHANGED <<parts, input, rest, tokens, request, err, url, rendered>>

ApplyFlagParse ==
    /\ pc = "tok_start"
    /\ result' = flag_parse(input)
    /\ pc' = "flag_parse"
    /\ UNCHANGED <<parts, input, rest, tokens, request, err, url, rendered>>

NextTok ==
    \/ ApplyMethodParse
    \/ ApplyHeaderParse
    \/ ApplyDataParse
    \/ ApplyFlagParse

SpecTok == InitTok /\ [][NextTok]_vars

----------------------------------------------------------------------------
(* Properties of the single-token parsers, over the behaviours of SpecTok. *)

HasValue == Len(parts) >= 2 /\ parts[2].kind \in {"Quoted", "Bare"}

\* the text after the spelling and its value
AfterValue == Flatten(SubSeq(parts, 3, Len(parts)))

\* C7: flag_parse returns an error, not a Flag token, when a flag of the
\* value-required tables is followed by no value or by text that begins,
\* after the whitespace, with '-' (as in --retry   --compressed).
C7_MissingValueFails ==
    ( /\ pc = "flag_parse"
      /\ flag_requires_value(parts[1].value)
      /\ ~HasValue )
    => ~IsOk(result)

\* C8: flag_parse on a flag of the value-required tables followed by
\* whitespace and a value yields the Flag token with that identifier and
\* the value as data, and leaves the text after the value (--retry 3
\* --compressed gives Flag --retry with data 3, remainder --compressed).
C8_ValueConsumed ==
    ( /\ pc = "flag_parse"
      /\ flag_requires_value(parts[1].value)
      /\ HasValue )
    => /\ IsOk(result)
       /\ result.out = Token("Flag", parts[1].value, Some(parts[2].value))
       /\ result.rest = AfterValue

\* C9: data_parse succeeds for every spelling of the data-flag table that
\* is followed by whitespace and a value, and yields the Data token with
\* that value (stated for quoted values, which data_parse takes after -d).
C9_EveryDataSpelling ==
    ( /\ pc = "data_parse"
      /\ Contains(DATA_FLAG_IDENTIFIERS, parts[1].value)
      /\ HasValue
      /\ parts[2].kind = "Quoted" )
    => /\ IsOk(result)
       /\ result.out = Token("Data", <<"-","d">>, Some(parts[2].value))
       /\ result.rest = AfterValue

\* C10: method_parse, header_parse and data_parse accept a bare unquoted
\* value: they yield the token with exactly that value and leave the text
\* after it (stated for the spellings -X, -H and -d).
C10_BareValueAccepted ==
    ( /\ HasValue
      /\ parts[2].kind = "Bare"
      /\ \/ pc = "method_parse" /\ parts[1].value = <<"-","X">>
         \/ pc = "header_parse" /\ parts[1].value = <<"-","H">>
         \/ pc = "data_parse" /\ parts[1].value = <<"-","d">> )
    => /\ IsOk(result)
       /\ result.out =
            Token(CASE pc = "method_parse" -> "Method"
                    [] pc = "header_parse" -> "Header"
                    [] OTHER -> "Data",
                  parts[1].value, Some(parts[2].value))
       /\ result.rest = AfterValue

\* the tags of the parser that was applied, and the token it builds
TagsOf(p) ==
    CASE p = "method_parse" -> MethodTags
      [] p = "header_parse" -> HeaderTags
      [] p = "data_parse" -> DataTags
      [] OTHER -> <<>>

\* the parser's tag alternative takes the whole spelling, and a quoted
\* value follows: the value is captured
ValueCaptured ==
    /\ HasValue
    /\ parts[2].kind = "Quoted"
    /\ \E tags \in {TagsOf(pc)} :
          /\ FirstTag(tags, parts[1].value) # 0
          /\ tags[FirstTag(tags, parts[1].value)] = parts[1].value

\* C23: for every value v captured after a method, header or data flag the
\* token is built with the short identifier of its category (-X, -H, -d)
\* whatever alias was written; a Method or Header token carries trim(v), a
\* Data token carries v untrimmed, a payload of only whitespace included.
C23_CanonicalTokenBuilt ==
    ValueCaptured =>
        /\ IsOk(result)
        /\ result.out =
             CASE pc = "method_parse" ->
                    Token("Method", <<"-","X">>, Some(Trim(parts[2].value)))
               [] pc = "header_parse" ->
                    Token("Header", <<"-","H">>, Some(Trim(parts[2].value)))
               [] OTHER -> Token("Data", <<"-","d">>, Some(parts[2].value))

----------------------------------------------------------------------------
(* Inputs of ParsedRequest::try_from_tokens: token sequences of bounded    *)
(* length over a small vocabulary, with or without Url tokens.             *)

MaxTokens == 3

TokenVocab ==
    { new_url(CurlUrlNew(<<"h","t","t","p","s">>, <<"e","x","a","m","p","l","e",".","c","o","m">>)),
      new_url(CurlUrlNew(<<"f","t","p">>, <<"h">>)),
      Token("Method", <<"-","X">>, Some(<<"G","E","T">>)),
      Token("Method", <<"-","X">>, Some(<<"P","O","S","T">>)),
      Token("Header", <<"-","H">>, Some(<<"A",":","1">>)),
      Token("Data", <<"-","d">>, Some(<<"x","=","1">>)),
      Token("Flag", <<"-","-","i","n","s","e","c","u","r","e">>, None),
      Token("Flag", <<"-","-","r","e","t","r","y">>, Some(<<"3">>)) }

\* sequences of at most n tokens
RECURSIVE TokenSeqs(_)
TokenSeqs(n) ==
    IF n = 0 THEN { <<>> }
    ELSE TokenSeqs(n - 1)
         \cup { Append(s, t) : s \in TokenSeqs(n - 1), t \in TokenVocab }

InitReq ==
    /\ parts = <<>>
    /\ input = <<>>
    /\ pc = "req_start"
    /\ rest = <<>>
    /\ tokens \in TokenSeqs(MaxTokens)
    /\ request = None
    /\ err = "none"
    /\ result = NoResult
    /\ url = None
    /\ rendered = None

\* ParsedRequest::try_from_tokens(tokens)
TryFromTokens ==
    /\ pc = "req_start"
    /\ \E r \in {try_from_tokens(tokens)} :
       IF r = None
       THEN /\ pc' = "req_failed"
            /\ err' = "MissingUrl"
            /\ request' = request
       ELSE /\ pc' = "req_done"
            /\ request' = r
            /\ err' = err
    /\ UNCHANGED <<parts, input, rest, tokens, result, url, rendered>>

NextReq == TryFromTokens

SpecReq == InitReq /\ [][NextReq]_vars

----------------------------------------------------------------------------
(* Properties of try_from_tokens, over the behaviours of SpecReq.          *)

HasUrlToken(ts) == \E i \in DOMAIN ts : ts[i].kind = "Url"

\* C11: try_from_tokens fails with MissingUrl exactly when the token
\* sequence holds no Url token; a sequence that holds a Url token gives a
\* ParsedRequest, whatever the other tokens are and wherever the Url is.
C11_MissingUrlIffNoUrlToken ==
    pc # "req_start" =>
        /\ (pc = "req_failed" /\ err = "MissingUrl" /\ request = None)
             <=> ~HasUrlToken(tokens)
        /\ (pc = "req_done" /\ err = "none" /\ request # None)
             <=> HasUrlToken(tokens)

C11_Witness ==
    /\ pc = "req_failed"
    /\ err = "MissingUrl"
    /\ Len(tokens) >= 2

\* the identifiers of the Flag tokens, in token order
RECURSIVE FlagIdentifiers(_)
FlagIdentifiers(ts) ==
    IF ts = <<>> THEN <<>>
    ELSE (IF Head(ts).kind = "Flag" THEN << Head(ts).identifier >> ELSE <<>>)
         \o FlagIdentifiers(Tail(ts))

\* C24: try_from_tokens leaves the token sequence unchanged: the tokens of
\* the ParsedRequest are the input sequence, element for element and with
\* the values of Flag tokens; flags is the sequence of the identifiers of
\* the Flag tokens in token order, one per Flag token, without values.
C24_TokensKeptFlagsByIdentifier ==
    pc = "req_done" =>
        /\ request[1].tokens = tokens
        /\ request[1].flags = FlagIdentifiers(tokens)
        /\ \A i \in DOMAIN request[1].flags : request[1].flags[i] # <<"3">>

C24_Witness ==
    /\ pc = "req_done"
    /\ tokens = << Token("Flag", <<"-","-","r","e","t","r","y">>, Some(<<"3">>)),
                   new_url(CurlUrlNew(<<"f","t","p">>, <<"h">>)),
                   Token("Flag", <<"-","-","i","n","s","e","c","u","r","e">>, None) >>
    /\ request[1].flags = << <<"-","-","r","e","t","r","y">>, <<"-","-","i","n","s","e","c","u","r","e">> >>
    /\ request[1].tokens[1].data = Some(<<"3">>)

----------------------------------------------------------------------------
(* Properties of curl_cmd_parse, over the behaviours of Spec.  In Spec     *)
(* curl_cmd_parse has returned Ok when pc is "build" or "done".            *)

CmdParsed == pc \in {"build", "done"}

\* the token a parsed argument piece stands for
TokenMatches(t, p) ==
    /\ t.kind = p.kind
    /\ t.url = None
    /\ IF p.kind = "Flag"
       THEN t.identifier = p.value /\ t.data = None
       ELSE t.data = Some(p.value)

\* C12: a successful curl_cmd_parse returns a token sequence whose first
\* element is a Url token, with no other Url token, followed by the tokens
\* of the matched method, header, data and flag arguments in input order.
C12_UrlFirstThenInputOrder ==
    CmdParsed =>
        /\ tokens # <<>>
        /\ tokens[1].kind = "Url"
        /\ \A i \in 2..Len(tokens) :
               tokens[i].kind \in {"Method", "Header", "Data", "Flag"}
        /\ Len(tokens) - 1 <= Len(Args)
        /\ Len(tokens) - 1 >= ConsumedArgs
        /\ \A i \in 1..(Len(tokens) - 1) : TokenMatches(tokens[i + 1], Args[i])

C12_Witness ==
    /\ CmdParsed
    /\ Len(tokens) = 6
    /\ tokens[3].kind = "Method"
    /\ tokens[4].kind = "Header"

\* the URL argument has parsed and curl_cmd_parse has returned
EndedAfterUrl == tokens # <<>> /\ pc \in {"build", "done", "failed"}

BadValue(p) ==
    \/ p.kind = "Unclosed"
    \/ /\ p.kind \in {"Method", "Header", "Data"}
       /\ p.text[Len(p.text)] \notin {"'", "\""}

C19_BadUrlFails ==
    (BeginsWithCurl(input) /\ parts[2].kind = "NoUrl" /\ pc \notin {"start", "url"})
    => /\ pc = "failed"
       /\ err \in {"Error", "Failure"}
       /\ tokens = <<>>
       /\ request = None

C19_Witness ==
    /\ pc = "failed"
    /\ BeginsWithCurl(input)
    /\ parts[2] = Piece(<<" ","'","e","x","a","m","p","l","e",".","c","o","m","'">>, "NoUrl", <<>>)
    /\ Len(parts) = 3
    /\ parts[3].kind = "Header"

----------------------------------------------------------------------------
(* Inputs of queries_to_query_fragments: an optional leading '?' and a     *)
(* bounded number of segments joined by '&'.  A segment piece carries the  *)
(* segment as its value.                                                   *)

MaxSegs == 3

SegVocab == { <<"k","=","v">>, <<"k">>, <<"a","=","b","=","c">>, <<>>, <<"=","v">>, <<"?","x","=","1">> }

\* sequences of at most n segment pieces; every piece but the first has the
\* separator in front of the segment
RECURSIVE SegSeqs(_)
SegSeqs(n) ==
    IF n = 0 THEN { <<>> }
    ELSE SegSeqs(n - 1)
         \cup { Append(x[1], Piece((IF x[1] = <<>> THEN <<>> ELSE <<"&">>) \o x[2],
                                   "Seg", x[2])) :
                  x \in SegSeqs(n - 1) \X SegVocab }

QuestionMark == Piece(<<"?">>, "Mark", <<>>)

ScenarioQuery ==
    << QuestionMark, Piece(<<"l","a","b","e","l","s","=","E","-","e","a","s","y">>, "Seg", <<"l","a","b","e","l","s","=","E","-","e","a","s","y">>),
       Piece(<<"&","s","t","a","t","e","=","o","p","e","n">>, "Seg", <<"s","t","a","t","e","=","o","p","e","n">>) >>

\* a segment sequence that begins with '?' always follows the '?' piece, so
\* that the pieces of a text are determined by the text
QueryTexts ==
    { <<QuestionMark>> \o s : s \in SegSeqs(MaxSegs) }
    \cup { s \in SegSeqs(MaxSegs) : s = <<>> \/ ~StartsWith(s[1].text, <<"?">>) }
    \cup { ScenarioQuery }

InitQuery ==
    /\ parts \in QueryTexts
    /\ input = Flatten(parts)
    /\ pc = "queries_start"
    /\ rest = input
    /\ tokens = <<>>
    /\ request = None
    /\ err = "none"
    /\ result = NoResult
    /\ url = Some(CurlUrlNew(<<"h","t","t","p">>, <<"h">>))
    /\ rendered = None

\* curl_url_parse: let fragments = queries_to_query_fragments(queries);
\* curl_url.set_queries(fragments)
QueriesToFragments ==
    /\ pc = "queries_start"
    /\ \E fragments \in {queries_to_query_fragments(input)} :
       /\ result' = Ok(<<>>, fragments)
       /\ url' = Some(set_queries(url[1], fragments))
    /\ pc' = "queries_done"
    /\ UNCHANGED <<parts, input, rest, tokens, request, err, rendered>>

NextQuery == QueriesToFragments

SpecQuery == InitQuery /\ [][NextQuery]_vars

----------------------------------------------------------------------------
(* Properties of queries_to_query_fragments, over the behaviours of        *)
(* SpecQuery.                                                              *)

\* the non-empty segments of the input, in order
RECURSIVE NonEmptySegs(_)
NonEmptySegs(ps) ==
    IF ps = <<>> THEN <<>>
    ELSE (IF Head(ps).kind = "Seg" /\ Head(ps).value # <<>>
          THEN <<Head(ps).value>> ELSE <<>>)
         \o NonEmptySegs(Tail(ps))

\* pair is the (key, value) of segment seg: key = value cut at the first '='
IsPairOf(pair, seg) ==
    \/ /\ \A i \in DOMAIN seg : seg[i] # "="
       /\ pair = <<seg, <<>> >>
    \/ /\ seg = pair[1] \o <<"=">> \o pair[2]
       /\ \A i \in DOMAIN pair[1] : pair[1][i] # "="

\* C14: queries_to_query_fragments strips one leading '?', splits on '&',
\* discards empty segments and cuts each remaining segment at its first '='
\* into (key, value), the value being empty without '='; order and
\* duplicate keys are kept, ?labels=E-easy&state=open gives
\* [(labels, E-easy), (state, open)], and an empty result is stored as
\* absent queries.
C14_QueryFragments ==
    pc = "queries_done" =>
        /\ Len(result.out) = Len(NonEmptySegs(parts))
        /\ \A i \in DOMAIN result.out :
               IsPairOf(result.out[i], NonEmptySegs(parts)[i])
        /\ parts = ScenarioQuery =>
               result.out = << << <<"l","a","b","e","l","s">>, <<"E","-","e","a","s","y">> >>,
                               << <<"s","t","a","t","e">>, <<"o","p","e","n">> >> >>
        /\ url[1].queries =
               IF result.out = <<>> THEN None ELSE Some(result.out)

C14_Witness ==
    /\ pc = "queries_done"
    /\ Len(parts) = 4
    /\ parts[3].value = <<>>
    /\ result.out = << << <<"a">>, <<"b","=","c">> >>, << <<"k">>, <<>> >> >>

----------------------------------------------------------------------------
(* Properties of the components curl_url_parse stores, over the            *)
(* behaviours of SpecUrl.                                                  *)

UrlParsed == pc \in {"url_parsed", "url_rendered", "url_reparsed"}

\* the pieces of a shaped URL between the scheme and the path (or the end)
RECURSIVE BeforePath(_)
BeforePath(ps) ==
    IF ps = <<>> \/ Head(ps).kind = "Path" THEN <<>>
    ELSE <<Head(ps)>> \o BeforePath(Tail(ps))

\* the credentials+domain segment: the text from the scheme separator up to
\* the first '/'
CredentialsSegment == Flatten(BeforePath(Tail(parts)))

\* ui is the userinfo that the text raw stands for: username and password
\* cut at the first ':', absent when the username is empty
IsUserInfoOf(ui, raw) ==
    IF raw = <<>> \/ Head(raw) = ":" THEN ui = None
    ELSE /\ ui # None
         /\ \A i \in DOMAIN ui[1].username : ui[1].username[i] # ":"
         /\ IF \A i \in DOMAIN raw : raw[i] # ":"
            THEN ui[1].username = raw /\ ui[1].password = None
            ELSE /\ ui[1].password # None
                 /\ raw = ui[1].username \o <<":">> \o ui[1].password[1]

\* C15: the credentials+domain segment is split on its last '@': the text
\* before it is the userinfo (username and password cut at the first ':'),
\* the text after it is the host; without '@' the whole segment is the host
\* and the userinfo is absent.
C15_SplitOnLastAt ==
    (Shaped /\ UrlParsed) =>
        IF \A i \in DOMAIN CredentialsSegment : CredentialsSegment[i] # "@"
        THEN url[1].domain = CredentialsSegment /\ url[1].userinfo = None
        ELSE \E i \in DOMAIN CredentialsSegment :
                 /\ CredentialsSegment[i] = "@"
                 /\ \A j \in (i + 1)..Len(CredentialsSegment) :
                        CredentialsSegment[j] # "@"
                 /\ url[1].domain = Drop(CredentialsSegment, i)
                 /\ IsUserInfoOf(url[1].userinfo, Take(CredentialsSegment, i - 1))

\* the scheme text s spells the name (a lower-case text) in some letter case
Spells(s, name) ==
    /\ Len(s) = Len(name)
    /\ \A i \in DOMAIN s :
           \/ s[i] = name[i]
           \/ \E k \in DOMAIN LowerSeq : name[i] = LowerSeq[k] /\ s[i] = UpperSeq[k]

\* C16: the scheme is mapped case-insensitively to Http, Https, Ftp or Smb,
\* and every other scheme becomes Other holding the scheme text as written
\* in the input, letter case preserved.
C16_OtherKeepsCase ==
    (Shaped /\ UrlParsed) =>
        url[1].protocol =
            CASE Spells(parts[1].value, <<"h","t","t","p">>) -> [tag |-> "Http", value |-> <<>>]
              [] Spells(parts[1].value, <<"h","t","t","p","s">>) -> [tag |-> "Https", value |-> <<>>]
              [] Spells(parts[1].value, <<"f","t","p">>) -> [tag |-> "Ftp", value |-> <<>>]
              [] Spells(parts[1].value, <<"s","m","b">>) -> [tag |-> "Smb", value |-> <<>>]
              [] OTHER -> [tag |-> "Other", value |-> parts[1].value]

\* C18: every CurlUrl that a successful curl_url_parse produces has a
\* non-empty domain; an argument with an empty host text (s:///p, s://u@)
\* does not yield a CurlUrl whose domain is "".
C18_DomainNonEmpty == UrlParsed => url[1].domain # <<>>

\* the text of t after its first occurrence of the character c (t itself
\* when c does not occur), and the text before it
AfterFirst(t, c) ==
    IF \A i \in DOMAIN t : t[i] # c THEN t
    ELSE SubSeq(t, 1 + (CHOOSE i \in DOMAIN t :
                            t[i] = c /\ \A j \in 1..(i - 1) : t[j] # c), Len(t))
BeforeFirst(t, c) == SubSeq(t, 1, Len(t) - Len(AfterFirst(t, c)) - 1)

\* the credentials+domain segment of a URL text: after the "//" of the
\* scheme separator, up to the first '/'
SegmentOf(t) == BeforeFirst(AfterFirst(AfterFirst(t, "/"), "/") \o <<"/">>, "/")

\* the segment holds '@' and the username before it is empty
EmptyUsername(t) ==
    /\ \E i \in DOMAIN SegmentOf(t) : SegmentOf(t)[i] = "@"
    /\ Head(SegmentOf(t)) \in {"@", ":"}

\* C27: a URL whose credentials segment holds '@' but gives an empty
\* username (s://@h, s://:pw@h) parses: the CurlUrl has no userinfo and its
\* domain is the text after the '@'; no error is raised.
C27_EmptyUsernameOmitted ==
    (pc # "url_start" /\ EmptyUsername(input)) =>
        /\ UrlParsed
        /\ url[1].userinfo = None
        /\ url[1].domain = AfterFirst(SegmentOf(input), "@")

C27_Witness ==
    /\ pc = "url_parsed"
    /\ input = <<"h","t","t","p",":","/","/",":","p","w","@","c","u","r","l",".","s","e",":","8","0","/","a">>
    /\ url[1].userinfo = None
    /\ url[1].domain = <<"c","u","r","l",".","s","e",":","8","0">>

\* the pieces of one kind in a URL
OfKind(ps, kind) == SelectSeq(ps, LAMBDA p : p.kind = kind)

\* C28: the optional components are decomposed independently.  For a URL
\* with a fragment and no query (scheme://host/path#frag) the fragment is
\* the alphanumeric text after '#' and the path holds no '#'; for a URL
\* with a query and no path (scheme://host?k=v) the domain is the host and
\* the queries are the pairs of the query text.
C28_ComponentsIndependent ==
    (Shaped /\ UrlParsed /\ parts[2].kind = "Host") =>
        /\ ( /\ OfKind(parts, "Path") # <<>>
             /\ OfKind(parts, "Query") = <<>>
             /\ OfKind(parts, "Fragment") # <<>> )
           => /\ url[1].fragment = Some(OfKind(parts, "Fragment")[1].value)
              /\ url[1].uri = Some(OfKind(parts, "Path")[1].value)
              /\ \A i \in DOMAIN url[1].uri[1] : url[1].uri[1][i] # "#"
        /\ ( /\ OfKind(parts, "Path") = <<>>
             /\ OfKind(parts, "Query") # <<>> )
           => /\ url[1].domain = parts[2].value
              /\ url[1].queries # None
              /\ OfKind(parts, "Query")[1].value = <<"k","=","v">>
                     => url[1].queries = Some(<< << <<"k">>, <<"v">> >> >>)

----------------------------------------------------------------------------
(* The setters of CurlUrl applied, in any order and a bounded number of    *)
(* times, to a CurlUrl that curl_url_parse produced.  The variable tokens  *)
(* is not used by these calls and holds the log of the setter calls.       *)

MaxCalls == 3

SetterUrls ==
    OddUrls
    \cup { << Piece(<<"h","t","t","p",":","/","/">>, "Scheme", <<"h","t","t","p">>), Piece(<<"h">>, "Host", <<"h">>) >>,
           << Piece(<<"h","t","t","p",":","/","/">>, "Scheme", <<"h","t","t","p">>), Piece(<<"h">>, "Host", <<"h">>),
              Piece(<<"/","a">>, "Path", <<"/","a">>), Piece(<<"?","k","=","v">>, "Query", <<"k","=","v">>),
              Piece(<<"#","F","2">>, "Fragment", <<"F","2">>) >> }

UriArgs == { <<>>, <<"/","p">> }
QueriesArgs == { <<>>, << << <<"k">>, <<"v">> >> >> }
FragmentArgs == { <<>>, <<"f">> }

InitSet ==
    /\ parts \in SetterUrls
    /\ input = Flatten(parts)
    /\ pc = "set_start"
    /\ rest = input
    /\ tokens = <<>>
    /\ request = None
    /\ err = "none"
    /\ result = NoResult
    /\ url = None
    /\ rendered = None

\* curl_url_parse(input)
SetParse ==
    /\ pc = "set_start"
    /\ \E r \in {curl_url_parse(input)} :
       IF IsOk(r)
       THEN /\ url' = Some(r.out)
            /\ rest' = r.rest
            /\ pc' = "set_ready"
            /\ err' = err
       ELSE /\ pc' = "set_failed"
            /\ err' = r.st
            /\ UNCHANGED <<url, rest>>
    /\ UNCHANGED <<parts, input, tokens, request, result, rendered>>

\* CurlUrl::set_uri
SetUri ==
    /\ pc = "set_ready"
    /\ Len(tokens) < MaxCalls
    /\ \E uri \in UriArgs :
       /\ url' = Some(set_uri(url[1], uri))
       /\ tokens' = Append(tokens, IF uri = <<>> THEN "set_uri_empty" ELSE "set_uri")
    /\ UNCHANGED <<parts, input, pc, rest, request, err, result, rendered>>

\* CurlUrl::set_queries
SetQueries ==
    /\ pc = "set_ready"
    /\ Len(tokens) < MaxCalls
    /\ \E queries \in QueriesArgs :
       /\ url' = Some(set_queries(url[1], queries))
       /\ tokens' = Append(tokens, IF queries = <<>> THEN "set_queries_empty"
                                   ELSE "set_queries")
    /\ UNCHANGED <<parts, input, pc, rest, request, err, result, rendered>>

\* CurlUrl::set_fragment
SetFragment ==
    /\ pc = "set_ready"
    /\ Len(tokens) < MaxCalls
    /\ \E fragment \in FragmentArgs :
       /\ url' = Some(set_fragment(url[1], fragment))
       /\ tokens' = Append(tokens, IF fragment = <<>> THEN "set_fragment_empty"
                                   ELSE "set_fragment")
    /\ UNCHANGED <<parts, input, pc, rest, request, err, result, rendered>>

NextSet ==
    \/ SetParse
    \/ SetUri
    \/ SetQueries
    \/ SetFragment

SpecSet == InitSet /\ [][NextSet]_vars

----------------------------------------------------------------------------
(* cli_support.rs: the JSON view of a ParsedRequest.  A serde_json Value   *)
(* is a record with its type; an object holds a function from its keys to  *)
(* their values.  CurlCommand and JsonField variants are written by name.   *)

JsonNull == [type |-> "null"]
JsonString(s) == [type |-> "string", value |-> s]
JsonArray(items) == [type |-> "array", items |-> items]
JsonObject(map) == [type |-> "object", map |-> map]

\* serde_json::Map::insert
MapInsert(map, key, value) ==
    [k \in DOMAIN map \cup {key} |-> IF k = key THEN value ELSE map[k]]

\* Serialize for Option<String>
JsonOptString(o) == IF o = None THEN JsonNull ELSE JsonString(o[1])

\* Serialize for Vec<String>
JsonStrings(v) == JsonArray([i \in DOMAIN v |-> JsonString(v[i])])

\* #[derive(Serialize)] enum Protocol
JsonProtocol(p) ==
    CASE p.tag = "Http" -> JsonString(<<"H","t","t","p">>)
      [] p.tag = "Https" -> JsonString(<<"H","t","t","p","s">>)
      [] p.tag = "Ftp" -> JsonString(<<"F","t","p">>)
      [] p.tag = "Smb" -> JsonString(<<"S","m","b">>)
      [] OTHER -> JsonObject([Other |-> JsonString(p.value)])

\* #[derive(Serialize)] struct UserInfo, inside an Option
JsonUserInfo(o) ==
    IF o = None THEN JsonNull
    ELSE JsonObject([username |-> JsonString(o[1].username),
                     password |-> JsonOptString(o[1].password)])

\* Serialize for Option<Vec<(String, String)>>
JsonQueries(o) ==
    IF o = None THEN JsonNull
    ELSE JsonArray([i \in DOMAIN o[1] |->
                       JsonArray(<< JsonString(o[1][i][1]), JsonString(o[1][i][2]) >>)])

\* #[derive(Serialize)] struct CurlUrl
JsonUrl(u) ==
    JsonObject([protocol |-> JsonProtocol(u.protocol),
                userinfo |-> JsonUserInfo(u.userinfo),
                domain |-> JsonString(u.domain),
                uri |-> JsonOptString(u.uri),
                queries |-> JsonQueries(u.queries),
                fragment |-> JsonOptString(u.fragment)])

\* #[derive(Serialize)] enum CurlToken over struct CurlField
JsonToken(t) ==
    IF t.kind = "Url" THEN JsonObject("Url" :> JsonUrl(t.url[1]))
    ELSE JsonObject(t.kind :> JsonObject([identifier |-> JsonString(t.identifier),
                                          data |-> JsonOptString(t.data)]))

JsonTokens(ts) == JsonArray([i \in DOMAIN ts |-> JsonToken(ts[i])])

\* serde_json::to_value(parsed): #[derive(Serialize)] struct ParsedRequest
to_value(parsed) ==
    JsonObject([url |-> JsonUrl(parsed.url),
                method |-> JsonOptString(parsed.method),
                headers |-> JsonStrings(parsed.headers),
                data |-> JsonStrings(parsed.data),
                flags |-> JsonStrings(parsed.flags),
                tokens |-> JsonTokens(parsed.tokens)])

\* the match on part
PartValue(parsed, part) ==
    CASE part = <<"M","e","t","h","o","d">> -> JsonOptString(parsed.method)
      [] part = <<"H","e","a","d","e","r">> -> JsonStrings(parsed.headers)
      [] part = <<"D","a","t","a">> -> JsonStrings(parsed.data)
      [] part = <<"F","l","a","g">> -> JsonStrings(parsed.flags)
      [] part = <<"U","r","l">> -> JsonUrl(parsed.url)

\* the loop over keys: one map.insert per key
RECURSIVE InsertKeys(_, _, _)
InsertKeys(map, parsed, keys) ==
    IF keys = <<>> THEN map
    ELSE InsertKeys(
             CASE Head(keys) = <<"U","r","l">> -> MapInsert(map, "url", JsonUrl(parsed.url))
               [] Head(keys) = <<"M","e","t","h","o","d">> ->
                      MapInsert(map, "method", JsonOptString(parsed.method))
               [] Head(keys) = <<"H","e","a","d","e","r","s">> ->
                      MapInsert(map, "headers", JsonStrings(parsed.headers))
               [] Head(keys) = <<"D","a","t","a">> -> MapInsert(map, "data", JsonStrings(parsed.data))
               [] Head(keys) = <<"F","l","a","g","s">> ->
                      MapInsert(map, "flags", JsonStrings(parsed.flags))
               [] Head(keys) = <<"T","o","k","e","n","s">> ->
                      MapInsert(map, "tokens", JsonTokens(parsed.tokens)),
             parsed, Tail(keys))

\* a variant of build_json_value that looks at keys before part
build_json_value_keys_first(parsed, part, keys) ==
    IF keys # <<>> THEN JsonObject(InsertKeys(<<>>, parsed, keys))
    ELSE IF part # None THEN PartValue(parsed, part[1])
    ELSE to_value(parsed)

\* build_json_value(parsed, part, keys): the Value inside Ok
build_json_value(parsed, part, keys) ==
    IF part # None THEN PartValue(parsed, part[1])
    ELSE IF keys # <<>> THEN JsonObject(InsertKeys(<<>>, parsed, keys))
    ELSE to_value(parsed)

----------------------------------------------------------------------------
(* Calls of build_json_value.  The variable parts holds the arguments of   *)
(* the call: the part, when one is given, then the keys in their order.     *)

MaxKeys == 2

CurlCommands == { <<"M","e","t","h","o","d">>, <<"H","e","a","d","e","r">>, <<"D","a","t","a">>, <<"F","l","a","g">>, <<"U","r","l">> }
JsonFields == { <<"U","r","l">>, <<"M","e","t","h","o","d">>, <<"H","e","a","d","e","r","s">>, <<"D","a","t","a">>, <<"F","l","a","g","s">>, <<"T","o","k","e","n","s">> }

\* sequences of at most n keys, repetitions included
RECURSIVE KeySeqs(_)
KeySeqs(n) ==
    IF n = 0 THEN { <<>> }
    ELSE KeySeqs(n - 1)
         \cup { Append(s, Piece(<<>>, "Key", k)) : s \in KeySeqs(n - 1), k \in JsonFields }

PartArgs == { <<>> } \cup { << Piece(<<>>, "Part", c) >> : c \in CurlCommands }

JsonRequests ==
    { try_from_tokens(ts) :
        ts \in { << new_url(CurlUrlNew(<<"h","t","t","p","s">>, <<"e","x","a","m","p","l","e",".","c","o","m">>)) >>,
                 << new_url(CurlUrlNew(<<"h","t","t","p","s">>, <<"e","x","a","m","p","l","e",".","c","o","m">>)),
                    Token("Data", <<"-","d">>, Some(<<"n","a","m","e","=","v","a","l","u","e">>)) >>,
                 << new_url(CurlUrlNew(<<"s","3">>, <<"h">>)),
                    Token("Method", <<"-","X">>, Some(<<"P","O","S","T">>)),
                    Token("Header", <<"-","H">>, Some(<<"A",":","1">>)),
                    Token("Header", <<"-","H">>, Some(<<"B",":","2">>)),
                    Token("Flag", <<"-","-","i","n","s","e","c","u","r","e">>, None) >> } }

PartArg(ps) == IF ps # <<>> /\ ps[1].kind = "Part" THEN Some(ps[1].value) ELSE None

KeyArgs(ps) == ValuesOfKind(ps, "Key")

InitJson ==
    /\ parts \in { p \o ks : p \in PartArgs, ks \in KeySeqs(MaxKeys) }
    /\ input = <<>>
    /\ pc = "json_start"
    /\ rest = <<>>
    /\ request \in JsonRequests
    /\ tokens = request[1].tokens
    /\ err = "none"
    /\ result = NoResult
    /\ url = None
    /\ rendered = None

\* build_json_value(&parsed, part, keys)
BuildJsonValue ==
    /\ pc = "json_start"
    /\ result' = Ok(<<>>, build_json_value(request[1], PartArg(parts), KeyArgs(parts)))
    /\ pc' = "json_done"
    /\ UNCHANGED <<parts, input, rest, tokens, request, err, url, rendered>>

NextJson == BuildJsonValue

SpecJson == InitJson /\ [][NextJson]_vars

----------------------------------------------------------------------------
(* Properties of build_json_value, over the behaviours of SpecJson.        *)

\* the object key that a JsonField variant selects
KeyName(k) ==
    CASE k = <<"U","r","l">> -> "url"
      [] k = <<"M","e","t","h","o","d">> -> "method"
      [] k = <<"H","e","a","d","e","r","s">> -> "headers"
      [] k = <<"D","a","t","a">> -> "data"
      [] k = <<"F","l","a","g","s">> -> "flags"
      [] k = <<"T","o","k","e","n","s">> -> "tokens"

\* C20: build_json_value selects its output by a fixed precedence.  With a
\* part the result is the value of that one field of the request (an array
\* for Header, Data and Flag) whatever the keys are; without a part and with
\* keys the result is an object whose key set is exactly the selected
\* fields, each holding the request's field; without either it is the
\* whole ParsedRequest object.
C20_PartThenKeysThenWhole ==
    pc = "json_done" =>
        LET Holds(value, parsed, part, keys) ==
                /\ part # None =>
                     /\ value = to_value(parsed).map[
                                    CASE part[1] = <<"M","e","t","h","o","d">> -> "method"
                                      [] part[1] = <<"H","e","a","d","e","r">> -> "headers"
                                      [] part[1] = <<"D","a","t","a">> -> "data"
                                      [] part[1] = <<"F","l","a","g">> -> "flags"
                                      [] part[1] = <<"U","r","l">> -> "url"]
                     /\ part[1] \in { <<"H","e","a","d","e","r">>, <<"D","a","t","a">>, <<"F","l","a","g">> }
                            => value.type = "array"
                /\ (part = None /\ keys # <<>>) =>
                     /\ value.type = "object"
                     /\ DOMAIN value.map = { KeyName(keys[i]) : i \in DOMAIN keys }
                     /\ \A k \in DOMAIN value.map : value.map[k] = to_value(parsed).map[k]
                /\ (part = None /\ keys = <<>>) =>
                     /\ value = to_value(parsed)
                     /\ DOMAIN value.map
                            = { "url", "method", "headers", "data", "flags", "tokens" }
        IN Holds(result.out, request[1], PartArg(parts), KeyArgs(parts))

C20_Witness ==
    /\ pc = "json_done"
    /\ PartArg(parts) = Some(<<"D","a","t","a">>)
    /\ KeyArgs(parts) = << <<"U","r","l">> >>
    /\ result.out = JsonArray(<< JsonString(<<"n","a","m","e","=","v","a","l","u","e">>) >>)

----------------------------------------------------------------------------
(* Properties of commands_parse and of the token parsers inside it, over   *)
(* the behaviours of Spec.                                                 *)

\* the four token parsers applied on their own, in the order of the alt
OnTheirOwn(s) == << method_parse(s), header_parse(s), data_parse(s), flag_parse(s) >>

\* the result of the earliest parser that succeeds on its own
Earliest(rs) ==
    rs[CHOOSE i \in DOMAIN rs : IsOk(rs[i]) /\ \A j \in 1..(i - 1) : ~IsOk(rs[j])]

\* C21: at every position of the token stream, whenever at least one of
\* method_parse, header_parse, data_parse, flag_parse succeeds there on its
\* own, the step of commands_parse appends the token of the earliest of
\* them that succeeds and continues at that parser's remainder.
C21_FirstSuccessWins ==
    [][ \A rs \in {OnTheirOwn(rest)} :
          (pc = "commands" /\ \E i \in DOMAIN rs : IsOk(rs[i]))
          => /\ pc' = "commands"
             /\ tokens' = Append(tokens, Earliest(rs).out)
             /\ rest' = Earliest(rs).rest ]_vars

C21_Witness ==
    /\ pc = "commands"
    /\ Len(tokens) = 3
    /\ tokens[2].kind = "Header"
    /\ tokens[3].kind = "Data"
    /\ ~IsOk(method_parse(rest))
    /\ IsOk(flag_parse(rest))

\* C22: no token sequence of curl_cmd_parse holds a Flag token whose
\* identifier is in the method, header or data tables; flag_parse fails at
\* a classified spelling.
C22_NoClassifiedFlag ==
    /\ \A i \in DOMAIN tokens :
           tokens[i].kind = "Flag" =>
               /\ ~Contains(METHOD_FLAG_IDENTIFIERS, tokens[i].identifier)
               /\ ~Contains(HEADER_FLAG_IDENTIFIERS, tokens[i].identifier)
               /\ ~Contains(DATA_FLAG_IDENTIFIERS, tokens[i].identifier)
    /\ (pc = "commands" /\ FlagIdentLen(SkipContinuation(rest)) > 0
        /\ expects_value(Take(SkipContinuation(rest),
                              FlagIdentLen(SkipContinuation(rest)))))
       => ~IsOk(flag_parse(rest))

C22_Witness ==
    /\ pc = "build"
    /\ Len(tokens) = 2
    /\ tokens[2] = Token("Flag", <<"-","-","i","n","s","e","c","u","r","e">>, None)
    /\ StartsWith(rest, <<" ","-","-","d","a","t","a","-","r","a","w"," ","'","r","'">>)

\* parse_curl_command is one sequential call: as long as it has not
\* returned it takes steps.  Running is any step taken before the return;
\* its first disjunct names one such step, so that its enabledness is
\* decided without applying the parsers.
Running ==
    /\ ~Finished
    /\ \/ /\ pc' = "failed"
          /\ UNCHANGED <<parts, input, rest, tokens, request, err, result, url, rendered>>
       \/ vars' # vars

SpecFair == Spec /\ WF_vars(Running)

\* before the return, the code has a next step to take
StepReady ==
    \/ pc \in {"start", "url", "build"}
    \/ pc = "commands" /\ AnyCommandParse(rest).st \in {"Ok", "Error", "Failure"}

\* C25: curl_cmd_parse terminates on every input: each successful
\* application of a token parser in the loop of commands_parse consumes at
\* least one character, so the remainder strictly shrinks at every
\* iteration, and the call ends with a result or an error.
C25_Terminates ==
    /\ [](pc = "commands" =>
            \A r \in {AnyCommandParse(rest)} : IsOk(r) => Len(r.rest) < Len(rest))
    /\ [][pc = "commands" /\ pc' = "commands" => Len(rest') < Len(rest)]_vars
    /\ [](Finished \/ StepReady)
    /\ <>Finished

C25_Witness ==
    /\ pc = "done"
    /\ Len(tokens) = 3
    /\ rest = <<>>

\* C26 as claimed: a command whose URL argument or whose method, header or
\* data value opens a quote that is never closed ends in an error, without
\* a ParsedRequest.
C26_AnyUnclosedFails ==
    ( /\ BeginsWithCurl(input)
      /\ \E i \in DOMAIN parts : parts[i].kind = "Unclosed"
      /\ Finished )
    => pc = "failed" /\ request = None

\* C26 amended: an unclosed quote is a parse failure where the parse gets
\* to it: in the URL argument, or in the value of a method, header or data
\* flag at the position the token stream has reached.  The call returns an
\* error (a nom Failure) and no ParsedRequest, not the tokens matched
\* before it.
C26_ReachedUnclosedFails ==
    /\ ( /\ BeginsWithCurl(input)
         /\ parts[2].kind = "Unclosed"
         /\ pc \notin {"start", "url"} )
       => pc = "failed" /\ err = "Failure" /\ tokens = <<>> /\ request = None
    /\ ( /\ EndedAfterUrl
         /\ ConsumedArgs < Len(Args)
         /\ Args[ConsumedArgs + 1].kind = "Unclosed" )
       => pc = "failed" /\ err = "Failure" /\ request = None

C26_Witness ==
    /\ pc = "failed"
    /\ Len(tokens) = 2
    /\ tokens[2].kind = "Header"
    /\ ConsumedArgs = 1
    /\ Args[2] = Piece(<<" ","-","d"," ","\"","x","=","1">>, "Unclosed", <<>>)

----------------------------------------------------------------------------
(* curl_cmd_parse as one function of the input text (curl/parser/          *)
(* command.rs), for the comparison of two command lines.                   *)

\* fold_many0(alt((method_parse, header_parse, data_parse, flag_parse)), ..)
\* from the tokens acc: an Error of the combined parser ends the loop, a
\* Failure is returned, a success that consumes nothing is an Error
RECURSIVE CommandsFold(_, _)
CommandsFold(s, acc) ==
    LET Step(r) ==
            IF r.st = "Error" THEN Ok(s, acc)
            ELSE IF r.st = "Failure" THEN Failure
            ELSE IF Len(r.rest) = Len(s) THEN Error
            ELSE CommandsFold(r.rest, Append(acc, r.out))
    IN Step(AnyCommandParse(s))

commands_parse(s) == CommandsFold(s, <<>>)

curl_cmd_parse(s) ==
    LET Commands(url_token, c) ==
            IF IsOk(c) THEN Ok(c.rest, <<url_token>> \o c.out) ELSE c
        Url(u) == IF IsOk(u) THEN Commands(u.out, commands_parse(u.rest)) ELSE u
    IN IF ~is_curl(s) THEN Error ELSE Url(url_parse(remove_curl_cmd_header(s)))

----------------------------------------------------------------------------
(* A command line and the same command line with one more continuation     *)
(* marker.  The marker is a piece of kind "Inserted", placed before one of  *)
(* the arguments that follow the URL; a continuation the command holds      *)
(* already is a piece of kind "Written".                                    *)

Markers ==
    { Piece(<<"\\">>, "Inserted", <<>>),
      Piece(<<" ","\\","\n">>, "Inserted", <<>>),
      Piece(<<"\\","\n"," "," ">>, "Inserted", <<>>),
      Piece(<<" ","\\"," ">>, "Inserted", <<>>) }

MarkedVocab ==
    { Piece(<<" ","-","H"," ","'","A",":","1","'">>, "Header", <<"A",":","1">>),
      Piece(<<" ","-","-","r","e","q","u","e","s","t"," ","\"","P","O","S","T","\"">>, "Method", <<"P","O","S","T">>),
      Piece(<<" ","-","d"," ","'","x","=","1","'">>, "Data", <<"x","=","1">>),
      Piece(<<" ","-","-","i","n","s","e","c","u","r","e">>, "Flag", <<"-","-","i","n","s","e","c","u","r","e">>),
      Piece(<<" ","-","k">>, "Flag", <<"-","k">>),
      Piece(<<" ","\\","\n">>, "Written", <<>>) }

\* sequences of at most n arguments
RECURSIVE MarkedSeqs(_)
MarkedSeqs(n) ==
    IF n = 0 THEN { <<>> }
    ELSE MarkedSeqs(n - 1)
         \cup { <<p>> \o s : p \in MarkedVocab, s \in MarkedSeqs(n - 1) }

\* the pieces ps with the piece m put in before the i-th of them
InsertAt(ps, i, m) == SubSeq(ps, 1, i - 1) \o <<m>> \o SubSeq(ps, i, Len(ps))

MarkedCommands ==
    { InsertAt(<<Curl, Example>> \o x[1], x[2], x[3]) :
        x \in { y \in MarkedSeqs(MaxArgs) \X (3..(MaxArgs + 2)) \X Markers :
                  /\ y[2] <= Len(y[1]) + 2
                  /\ y[1][Len(y[1])].kind # "Written" } }

\* the command line without the inserted marker
Unmarked(ps) == Flatten(SelectSeq(ps, LAMBDA p : p.kind # "Inserted"))

InitCont ==
    /\ parts \in MarkedCommands
    /\ input = Flatten(parts)
    /\ pc = "cont_start"
    /\ rest = input
    /\ tokens = <<>>
    /\ request = None
    /\ err = "none"
    /\ result = NoResult
    /\ url = None
    /\ rendered = None

\* curl_cmd_parse of the command line without the inserted marker
ParseUnmarked ==
    /\ pc = "cont_start"
    /\ result' = curl_cmd_parse(Unmarked(parts))
    /\ pc' = "cont_unmarked"
    /\ UNCHANGED <<parts, input, rest, tokens, request, err, url, rendered>>

\* curl_cmd_parse of the command line with the marker
ParseMarked ==
    /\ pc = "cont_unmarked"
    /\ \E r \in {curl_cmd_parse(input)} :
       /\ err' = r.st
       /\ tokens' = (IF IsOk(r) THEN r.out ELSE <<>>)
       /\ rest' = (IF IsOk(r) THEN r.rest ELSE rest)
    /\ pc' = "cont_marked"
    /\ UNCHANGED <<parts, input, request, result, url, rendered>>

NextCont ==
    \/ ParseUnmarked
    \/ ParseMarked

SpecCont == InitCont /\ [][NextCont]_vars

----------------------------------------------------------------------------
(* Properties of the line continuation, over the behaviours of SpecCont.   *)

\* C29: a continuation marker is ignorable: one marker inserted between
\* the URL and the first flag, or between two consecutive flags, of a
\* command that parses gives the same token sequence as the command
\* without the marker.
C29_MarkerIgnorable ==
    (pc = "cont_marked" /\ IsOk(result)) =>
        /\ err = "Ok"
        /\ tokens = result.out

----------------------------------------------------------------------------
(* Inputs of quoted_data_parse: every text of bounded length over both     *)
(* quote characters, a blank and a letter.                                 *)

MaxLen == 5

QuoteAlphabet == { "\"", "'", " ", "a" }

\* texts of at most n characters
RECURSIVE QuoteTexts(_)
QuoteTexts(n) ==
    IF n = 0 THEN { <<>> }
    ELSE QuoteTexts(n - 1)
         \cup { Append(t, c) : t \in QuoteTexts(n - 1), c \in QuoteAlphabet }

InitQuote ==
    /\ parts = <<>>
    /\ input \in QuoteTexts(MaxLen)
    /\ pc = "quoted_start"
    /\ rest = input
    /\ tokens = <<>>
    /\ request = None
    /\ err = "none"
    /\ result = NoResult
    /\ url = None
    /\ rendered = None

\* quoted_data_parse(input)
ApplyQuotedDataParse ==
    /\ pc = "quoted_start"
    /\ result' = quoted_data_parse(input)
    /\ pc' = "quoted_done"
    /\ UNCHANGED <<parts, input, rest, tokens, request, err, url, rendered>>

NextQuote == ApplyQuotedDataParse

SpecQuote == InitQuote /\ [][NextQuote]_vars

----------------------------------------------------------------------------
(* Properties of quoted_data_parse, over the behaviours of SpecQuote.      *)

\* the first character of t that is not white space, or "" when there is none
FirstVisible(t) ==
    IF \A i \in DOMAIN t : t[i] \in MultiSpace THEN ""
    ELSE t[CHOOSE i \in DOMAIN t :
               t[i] \notin MultiSpace /\ \A j \in 1..(i - 1) : t[j] \in MultiSpace]

\* C30: on no input do double_quoted_data_parse and single_quoted_data_parse
\* both succeed; quoted_data_parse returns the result of the style of the
\* first character that is not white space (a Failure when that is no
\* quote), so the comparison of the two captured lengths decides nothing.
C30_OneStyleMatches ==
    /\ ~(IsOk(double_quoted_data_parse(input)) /\ IsOk(single_quoted_data_parse(input)))
    /\ pc = "quoted_done" =>
         result = CASE FirstVisible(input) = "\"" ->
                         IF IsOk(double_quoted_data_parse(input))
                         THEN double_quoted_data_parse(input) ELSE Failure
                    [] FirstVisible(input) = "'" ->
                         IF IsOk(single_quoted_data_parse(input))
                         THEN single_quoted_data_parse(input) ELSE Failure
                    [] OTHER -> Failure

C30_Witness ==
    /\ pc = "quoted_done"
    /\ input = <<" ","\"","'","'","\"">>
    /\ result = Ok(<<>>, <<"'","'">>)

====
